---- MODULE Spec2Model ----
(***************************************************************************)
(* Screenflow: the capture session of hooks/useScreenRecorder.ts, the      *)
(* export pipeline of utils/mp4.ts and the camera overlay of               *)
(* components/RecordingOverlay.tsx, as state machines.                     *)
(*                                                                         *)
(* Part I models one mounted instance of the useScreenRecorder hook, the   *)
(* calls made on it and the browser objects it drives (media streams, the  *)
(* MediaRecorder, the AudioContext, interval timers).  Every await of      *)
(* startRecording is a point where other handlers may run.                 *)
(*                                                                         *)
(* Part II models the module state of utils/mp4.ts, the transcodeToMp4     *)
(* calls made on it, the FFmpeg objects they load and the JavaScript task  *)
(* and microtask order their continuations run in.                         *)
(*                                                                         *)
(* Part III models the picture-in-picture controller and the drag handlers *)
(* of components/RecordingOverlay.tsx: the component's state and refs, the *)
(* browser objects it drives (the Document PiP windows, the video PiP, the *)
(* interval and timeout timers) and its async handlers, which other        *)
(* handlers and events interleave with at every await.                     *)
(***************************************************************************)
EXTENDS Integers, Sequences, FiniteSets, TLC

\* ------------------------------------------------------------------ bounds
MaxSessions == 2   \* startRecording calls in one behaviour
MaxTime == 1       \* cap of the recordingTime counter
MaxBytes == 1      \* cap of the bytes one recorder accumulates

Sessions == 1..MaxSessions
StreamIds == Sessions \X {"screen", "mic"}

\* error strings of the hook, by kind
ErrPermission == "Permiso de pantalla denegado."
ErrNoVideo == "No se detecto video de pantalla."
ErrStart == "No se pudo iniciar la grabacion."
ErrEncoder == "No se pudo grabar este video."
ErrEmpty == "El video salio vacio."

VARIABLES
  \* ---- React state of the hook
  isRecording, isPaused, recordingTime, recordedChunks, error,
  \* ---- refs of the hook (0 = null)
  mediaRecorderRef, timerIntervalRef, streamsRef, audioContextRef,
  \* ---- the component
  mounted,
  \* ---- per startRecording call: position and closure variables
  started,          \* number of startRecording calls made so far
  pc,               \* "idle" | "awaitScreen" | "awaitMic" | "returned"
  includeMic,       \* settings.includeMic of the call
  micStream,        \* "unset" | "null" | "granted" : the local micStream
  combinedStream,   \* the stream handed to the recorder: whose video track, which audio
  totalBytes,       \* totalBytes of the call's chunks
  \* ---- browser objects
  streams,          \* StreamIds -> "none" | "live" | "stopped"
  hasVideo,         \* the granted screen stream has a video track
  hasSysAudio,      \* the granted screen stream has an audio track
  ctx,              \* AudioContext of the call: "none" | "open" | "closed"
  recorder,         \* MediaRecorder.state of the call: "none" | "inactive" | "recording" | "paused"
  events,           \* tasks the recorder has queued: Seq of "data" | "stop" | "error"
  liveTimers,       \* ids of the intervals that are running
  \* ---- history
  result,           \* what the call returned: "pending" | "true" | "false"
  artifacts,        \* times the call's onstop published a blob
  errors,           \* errors the call's code reported, in order
  stopCalls,        \* times recorder.stop() ran on the call's recorder
  displayRequests,  \* getDisplayMedia requests of the call
  displayOutcome,   \* how the request settled: "pending" | "granted" | "NotAllowedError" | "OtherError"
  justResumed       \* the handler that ran last was a resumeRecording that took effect

recVars == <<isRecording, isPaused, recordingTime, recordedChunks, error,
             mediaRecorderRef, timerIntervalRef, streamsRef, audioContextRef,
             mounted, started, pc, includeMic, micStream, combinedStream,
             totalBytes, streams, hasVideo, hasSysAudio, ctx, recorder, events,
             liveTimers, result, artifacts, errors, stopCalls, displayRequests,
             displayOutcome, justResumed>>

\* ------------------------------------------------------- Part II: bounds
MaxJobs == 3          \* transcodeToMp4 calls in one behaviour
MaxInFlight == 2      \* calls of Mp4Spec that are unsettled at one time
MaxProgressJobs == 2  \* transcodeToMp4 calls in one behaviour of ProgressSpec
MaxNow == 400         \* cap of the clock (ms)
MaxFaultyJobs == 1    \* calls of one behaviour that meet a failing operation

Jobs == 1..MaxJobs
\* the FFmpeg object created by the load that call i starts
Instances == Jobs

\* progress is counted in thousandths: One is 1.0, NearlyDone 0.995
One == 1000
NearlyDone == 995
ThrottleMs == 150
MicrosPerSecond == 1000000
\* Date.now() when the module is loaded: later than ThrottleMs after the epoch
ClockStart == 200
ClockSteps == {0, 200}

VARIABLES
  \* ---- module state of mp4.ts (0 = null)
  ffmpegInstance, ffmpegLoadPromise, activeProgressCallback,
  activeDurationSeconds, activeLastProgress01, activeLastUpdateMs,
  \* ---- the platform
  now,              \* Date.now()
  instState,        \* FFmpeg object: "none" | "loading" | "loaded" | "terminated" | "failed"
  microQ,           \* jobs whose continuation is queued as a microtask, in order
  sync,             \* the caller's task that made the last call is still running
  \* ---- per transcodeToMp4 call
  calls,            \* number of calls made so far
  jobPc,            \* the await the call is at
  ffmpeg,           \* the FFmpeg object the call awaits, then uses (local `ffmpeg`)
  aborted,          \* local `aborted`
  signalAborted,    \* opts.signal.aborted
  resetAfter,       \* opts.resetAfter
  onProgress,       \* opts.onProgress was given
  durationSeconds,  \* opts.durationSeconds (0 = not given)
  outcome,          \* how the promise settles: "pending" | "resolved" | "AbortError" | "Error"
  \* ---- history
  abortedAt,        \* the await the call was at when its signal fired, or "none"
  lastDelivered,    \* the last value the call's onProgress received (-1 = none yet)
  lastInput,        \* the clamped input of the report that made that delivery
  deliveredAt,      \* Date.now() at that delivery (-1 = none yet)
  lastGap,          \* the time between that delivery and the one before it (-1 = none before)
  faulty,           \* the calls an operation of which has failed
  afterCancel,      \* the call was made after a cancelled call had rejected
  statuses,         \* the statuses the call's onStatus received, in order
  files,            \* the files in the working space of each FFmpeg object
  transforms        \* the ffmpeg.exec calls the call has made, in order

mp4Vars == <<ffmpegInstance, ffmpegLoadPromise, activeProgressCallback,
             activeDurationSeconds, activeLastProgress01, activeLastUpdateMs,
             now, instState, microQ, sync, calls, jobPc, ffmpeg, aborted,
             signalAborted, resetAfter, onProgress, durationSeconds, outcome,
             abortedAt, lastDelivered, lastInput, deliveredAt, lastGap, faulty,
             afterCancel,
             statuses, files, transforms>>

\* ------------------------------------------------------ Part III: bounds
MaxWindows == 2        \* Document PiP windows opened in one behaviour
MaxOps == 2            \* overlay handler invocations in flight at once
MaxAutoPipAttempts == 20   \* `attempts > 20` of the auto-PiP effect
MaxX == 2              \* pointer coordinates: 0, CoordStep, .. MaxX * CoordStep
CoordStep == 150       \* distance between two pointer coordinates, in px
Margin == 24           \* `const margin = 24`
\* the widths and heights the viewport takes
Viewports == {<<210, 400>>, <<400, 210>>, <<400, 400>>, <<700, 400>>, <<700, 700>>}
Coords == {k * CoordStep : k \in 0..MaxX}
\* no position: bubblePos null, no item in localStorage, dragRef.current null
NoPos == <<>>

Windows == 1..MaxWindows
Ops == 1..MaxOps
PipSizes == {"sm", "md", "lg"}

\* ------------------------------------------- Part III: RecordingOverlay.tsx
VARIABLES
  overlay,                 \* "none" (not rendered yet) | "mounted" | "unmounted"
  cameraEnabled,           \* prop cameraEnabled
  canUseDocumentPip,       \* window.documentPictureInPicture.requestWindow exists
  pipMode,                 \* state pipMode
  pipSize,                 \* state pipSize
  isCameraOn,              \* state isCameraOn
  srcObject,               \* videoRef.current.srcObject: "none" | "pending" (getUserMedia in flight) | "attached"
  pictureInPictureElement, \* document.pictureInPictureElement is the camera video
  documentPipWindowRef,    \* documentPipWindowRef.current (0 = null)
  documentPipPollRef,      \* documentPipPollRef.current: the window its interval polls (0 = null)
  win,                     \* each Document PiP window: "none" | "open" | "closed"
  winSize,                 \* the width and height each window was requested with (<<0, 0>> = none)
  closedBy,                \* who closed each window: "none" | "user" | "page" | "browser"
  listening,               \* the windows whose pagehide/unload listeners are registered
  livePolls,               \* the windows whose setInterval poll is still running
  op,                      \* the handler invocations in flight
  autoPc,                  \* the auto-PiP run: "idle" | "reqVideo" (awaiting enterVideoPip)
  autoPipAttemptedRef,     \* autoPipAttemptedRef.current
  attempts,                \* local `attempts` of the current auto-PiP effect
  timeoutId,               \* a timeout of the auto-PiP effect is pending
  bubblePos,               \* state bubblePos: <<x, y>> (NoPos = null)
  storedPos,               \* localStorage 'screenflow.cameraBubblePos' (NoPos = absent)
  dragRef,                 \* dragRef.current: <<offsetX, offsetY>> (NoPos = null)
  innerWidth,              \* window.innerWidth
  innerHeight,             \* window.innerHeight
  isCameraMirrored,        \* state isCameraMirrored
  storedPipSize,           \* localStorage 'screenflow.cameraPipSize' ("absent" = no item)
  storedMirror,            \* localStorage 'screenflow.cameraMirror' ("absent" = no item)
  \* ---- history
  autoDone,                \* the auto-PiP effect has given up or made its attempt
  userLeftPip              \* a togglePip call has left an active mode since the mount

ovVars == <<overlay, cameraEnabled, canUseDocumentPip, pipMode, pipSize,
            isCameraOn, srcObject, pictureInPictureElement,
            documentPipWindowRef, documentPipPollRef, win, winSize, closedBy,
            listening, livePolls, op, autoPc, autoPipAttemptedRef, attempts,
            timeoutId, bubblePos, storedPos, dragRef, innerWidth, innerHeight,
            isCameraMirrored, storedPipSize, storedMirror, autoDone,
            userLeftPip>>

\* --------------------------------------------------- Part IV: bounds
MaxStopTimeouts == 2   \* 500 ms timeouts of handleStopRecording pending at once

\* ------------------------------------------------------- Part IV: App.tsx
VARIABLES
  view,               \* state view: "DASHBOARD" | "SETUP" | "RECORDING" | "PREVIEW"
  selectedRecording,  \* state selectedRecording is not null
  stopTimeouts,       \* timeouts of handleStopRecording that have yet to fire
  startHandled        \* the startRecording calls handleStartRecording has resumed from

appVars == <<view, selectedRecording, stopTimeouts, startHandled>>

\* ---------------------------------------------------- Part V: bounds
MaxCamRuns == 4        \* runs of the camera effect in one behaviour
CamRuns == 1..MaxCamRuns
MaxCameraId == 1       \* cameraId: 0 (null, the default camera) .. MaxCameraId

\* ------------------- Part V: RecordingOverlay.tsx, the camera stream effect
VARIABLES
  camMounted,         \* the overlay is mounted
  cameraActive,       \* isCameraActive of the last render
  cameraId,           \* prop cameraId of the last render (0 = null)
  camRun,             \* number of runs of the effect so far; the last is the current one
  camPc,              \* each run: "none" | "idle" (no request) | "awaiting" | "attached" | "rejected" | "stoppedLate"
  cancelled,          \* local `cancelled` of each run
  stream,             \* local `stream` of each run: "null", or its tracks "live" | "stopped"
  camSrcObject        \* videoRef.current.srcObject: the run whose stream it is (0 = null)

camVars == <<camMounted, cameraActive, cameraId, camRun, camPc, cancelled,
             stream, camSrcObject>>

vars == <<recVars, mp4Vars, ovVars, appVars, camVars>>

\* no stream composed yet
NoStream == [video |-> 0, audio |-> "none"]

\* ------------------------------------------------------------------ Init
RecInit ==
  /\ isRecording = FALSE
  /\ isPaused = FALSE
  /\ recordingTime = 0
  /\ recordedChunks = <<>>
  /\ error = "null"
  /\ mediaRecorderRef = 0
  /\ timerIntervalRef = 0
  /\ streamsRef = <<>>
  /\ audioContextRef = 0
  /\ mounted = TRUE
  /\ started = 0
  /\ pc = [s \in Sessions |-> "idle"]
  /\ includeMic = [s \in Sessions |-> FALSE]
  /\ micStream = [s \in Sessions |-> "unset"]
  /\ combinedStream = [s \in Sessions |-> NoStream]
  /\ totalBytes = [s \in Sessions |-> 0]
  /\ streams = [id \in StreamIds |-> "none"]
  /\ hasVideo = [s \in Sessions |-> FALSE]
  /\ hasSysAudio = [s \in Sessions |-> FALSE]
  /\ ctx = [s \in Sessions |-> "none"]
  /\ recorder = [s \in Sessions |-> "none"]
  /\ events = [s \in Sessions |-> <<>>]
  /\ liveTimers = {}
  /\ result = [s \in Sessions |-> "pending"]
  /\ artifacts = [s \in Sessions |-> 0]
  /\ errors = [s \in Sessions |-> <<>>]
  /\ stopCalls = [s \in Sessions |-> 0]
  /\ displayRequests = [s \in Sessions |-> 0]
  /\ displayOutcome = [s \in Sessions |-> "pending"]
  /\ justResumed = FALSE

Mp4Init ==
  /\ ffmpegInstance = 0
  /\ ffmpegLoadPromise = 0
  /\ activeProgressCallback = 0
  /\ activeDurationSeconds = 0
  /\ activeLastProgress01 = 0
  /\ activeLastUpdateMs = 0
  /\ now = ClockStart
  /\ instState = [i \in Instances |-> "none"]
  /\ microQ = <<>>
  /\ sync = FALSE
  /\ calls = 0
  /\ jobPc = [j \in Jobs |-> "idle"]
  /\ ffmpeg = [j \in Jobs |-> 0]
  /\ aborted = [j \in Jobs |-> FALSE]
  /\ signalAborted = [j \in Jobs |-> FALSE]
  /\ resetAfter = [j \in Jobs |-> TRUE]
  /\ onProgress = [j \in Jobs |-> FALSE]
  /\ durationSeconds = [j \in Jobs |-> 0]
  /\ outcome = [j \in Jobs |-> "pending"]
  /\ abortedAt = [j \in Jobs |-> "none"]
  /\ lastDelivered = [j \in Jobs |-> -1]
  /\ lastInput = [j \in Jobs |-> -1]
  /\ deliveredAt = [j \in Jobs |-> -1]
  /\ lastGap = [j \in Jobs |-> -1]
  /\ faulty = {}
  /\ afterCancel = [j \in Jobs |-> FALSE]
  /\ statuses = [j \in Jobs |-> <<>>]
  /\ files = [i \in Instances |-> {}]
  /\ transforms = [j \in Jobs |-> <<>>]

\* no handler invocation in the slot
IdleOp == [kind |-> "none", pc |-> "idle", size |-> "sm", win |-> 0,
           retry |-> FALSE, tried |-> <<>>]

OvInit ==
  /\ overlay = "none"
  /\ cameraEnabled = FALSE
  /\ canUseDocumentPip = FALSE
  /\ pipMode = "none"
  /\ pipSize = "sm"
  /\ isCameraOn = FALSE
  /\ srcObject = "none"
  /\ pictureInPictureElement = FALSE
  /\ documentPipWindowRef = 0
  /\ documentPipPollRef = 0
  /\ win = [w \in Windows |-> "none"]
  /\ winSize = [w \in Windows |-> <<0, 0>>]
  /\ closedBy = [w \in Windows |-> "none"]
  /\ listening = {}
  /\ livePolls = {}
  /\ op = [o \in Ops |-> IdleOp]
  /\ autoPc = "idle"
  /\ autoPipAttemptedRef = FALSE
  /\ attempts = 0
  /\ timeoutId = FALSE
  /\ bubblePos = NoPos
  /\ storedPos = NoPos
  /\ dragRef = NoPos
  /\ innerWidth = 400
  /\ innerHeight = 400
  /\ isCameraMirrored = TRUE
  /\ storedPipSize = "absent"
  /\ storedMirror = "absent"
  /\ autoDone = FALSE
  /\ userLeftPip = FALSE

AppInit ==
  /\ view = "DASHBOARD"
  /\ selectedRecording = FALSE
  /\ stopTimeouts = 0
  /\ startHandled = {}

CamInit ==
  /\ camMounted = FALSE
  /\ cameraActive = FALSE
  /\ cameraId = 0
  /\ camRun = 0
  /\ camPc = [r \in CamRuns |-> "none"]
  /\ cancelled = [r \in CamRuns |-> FALSE]
  /\ stream = [r \in CamRuns |-> "null"]
  /\ camSrcObject = 0

Init == RecInit /\ Mp4Init /\ OvInit /\ AppInit /\ CamInit

\* ------------------------------------------------------------- helpers
Range(q) == {q[i] : i \in DOMAIN q}

\* window.setInterval returns an id no running interval has (an id that is not
\* running is indistinguishable from a new one: both assignments of
\* timerIntervalRef overwrite the id it held)
FreshTimer == CHOOSE t \in 1..(Cardinality(liveTimers) + 1) : t \notin liveTimers

\* stream.getTracks().forEach(track => track.stop()) over the streams of a list
StopAllTracks(st, sr) ==
  [id \in StreamIds |-> IF id \in Range(sr) THEN "stopped" ELSE st[id]]

\* cleanup that empties streamsRef without stopping the tracks
cleanupKeepsTracks(sr, st, acRef, cx, tRef, lt) ==
  /\ streams' = st
  /\ streamsRef' = <<>>
  /\ ctx' = IF acRef # 0 THEN [cx EXCEPT ![acRef] = "closed"] ELSE cx
  /\ audioContextRef' = 0
  /\ liveTimers' = IF tRef # 0 THEN lt \ {tRef} ELSE lt
  /\ timerIntervalRef' = 0

\* cleanup(): stop every stream of streamsRef, close the AudioContext, clear the
\* timer.  The arguments are the values the refs and objects hold when it is
\* called (the caller may have changed them earlier in the same handler).
cleanup(sr, st, acRef, cx, tRef, lt) ==
  /\ streams' = StopAllTracks(st, sr)
  /\ streamsRef' = <<>>
  /\ ctx' = IF acRef # 0 THEN [cx EXCEPT ![acRef] = "closed"] ELSE cx
  /\ audioContextRef' = 0
  /\ liveTimers' = IF tRef # 0 THEN lt \ {tRef} ELSE lt
  /\ timerIntervalRef' = 0

cleanupVars == <<streams, streamsRef, ctx, audioContextRef, liveTimers, timerIntervalRef>>

\* needsMixing with the test of one source instead of both
needsMixingEither(sys, mic) == sys \/ mic

\* needsMixing of startRecording
needsMixing(sys, mic) == sys /\ mic

\* The audio of combinedStream, by the sources present at composition time:
\* "mixed" is the destination track of the AudioContext, "system" and "mic" the
\* raw track of the one source, "none" a video-only stream.
ComposeAudio(sys, mic) ==
  IF needsMixing(sys, mic) THEN "mixed"
  ELSE IF sys THEN "system"
  ELSE IF mic THEN "mic"
  ELSE "none"

\* MediaStream.active of a combined stream: some track of it has not ended.
\* The screen's video and audio tracks live and end with the screen stream,
\* the destination track of the mixer with its AudioContext.
StreamActive(s, cs, st, cx) ==
  \/ st[<<cs.video, "screen">>] = "live"
  \/ cs.audio = "mic" /\ st[<<s, "mic">>] = "live"
  \/ cs.audio = "mixed" /\ cx[s] = "open"

\* The rest of startRecording once the microphone stage is over (lines 106-193,
\* and the catch of 195-199): compose the stream, create the recorder, start it
\* and the timer.  recorder.start() throws on a stream with no live track.
startTail(s, sr, st, sys, mic) ==
  LET micPresent == (mic = "granted")
      mixing == needsMixing(sys, micPresent)
      cx1 == IF mixing THEN [ctx EXCEPT ![s] = "open"] ELSE ctx
      acRef1 == IF mixing THEN s ELSE audioContextRef
      cs == [video |-> s, audio |-> ComposeAudio(sys, micPresent)]
  IN /\ micStream' = [micStream EXCEPT ![s] = mic]
     /\ combinedStream' = [combinedStream EXCEPT ![s] = cs]
     /\ mediaRecorderRef' = s
     /\ pc' = [pc EXCEPT ![s] = "returned"]
     /\ IF StreamActive(s, cs, st, cx1)
        THEN /\ recorder' = [recorder EXCEPT ![s] = "recording"]
             /\ isRecording' = TRUE
             /\ recordingTime' = 0
             /\ timerIntervalRef' = FreshTimer
             /\ liveTimers' = liveTimers \cup {FreshTimer}
             /\ streams' = st
             /\ streamsRef' = sr
             /\ ctx' = cx1
             /\ audioContextRef' = acRef1
             /\ result' = [result EXCEPT ![s] = "true"]
             /\ UNCHANGED <<error, errors>>
        ELSE /\ recorder' = [recorder EXCEPT ![s] = "inactive"]
             /\ error' = ErrStart
             /\ errors' = [errors EXCEPT ![s] = Append(@, ErrStart)]
             /\ cleanup(sr, st, acRef1, cx1, timerIntervalRef, liveTimers)
             /\ result' = [result EXCEPT ![s] = "false"]
             /\ UNCHANGED <<isRecording, recordingTime>>

\* stopRecording without the test of the recorder's state
stopRecordingUnguarded(st) ==
  IF mediaRecorderRef # 0
  THEN /\ recorder' = [recorder EXCEPT ![mediaRecorderRef] = "inactive"]
       /\ events' = [events EXCEPT ![mediaRecorderRef] = @ \o <<"data", "stop">>]
       /\ stopCalls' = [stopCalls EXCEPT ![mediaRecorderRef] = @ + 1]
       /\ isRecording' = FALSE
       /\ isPaused' = FALSE
       /\ streams' = st
       /\ UNCHANGED <<streamsRef, ctx, audioContextRef, liveTimers, timerIntervalRef>>
  ELSE /\ cleanup(streamsRef, st, audioContextRef, ctx, timerIntervalRef, liveTimers)
       /\ UNCHANGED <<recorder, events, stopCalls, isRecording, isPaused>>

\* stopRecording(): stop a recorder that is not inactive, else clean up.
stopRecording(st) ==
  IF mediaRecorderRef # 0 /\ recorder[mediaRecorderRef] # "inactive"
  THEN /\ recorder' = [recorder EXCEPT ![mediaRecorderRef] = "inactive"]
       /\ events' = [events EXCEPT ![mediaRecorderRef] = @ \o <<"data", "stop">>]
       /\ stopCalls' = [stopCalls EXCEPT ![mediaRecorderRef] = @ + 1]
       /\ isRecording' = FALSE
       /\ isPaused' = FALSE
       /\ streams' = st
       /\ UNCHANGED <<streamsRef, ctx, audioContextRef, liveTimers, timerIntervalRef>>
  ELSE /\ cleanup(streamsRef, st, audioContextRef, ctx, timerIntervalRef, liveTimers)
       /\ UNCHANGED <<recorder, events, stopCalls, isRecording, isPaused>>

\* ------------------------------------------------------------- actions
\* startRecording up to its first await: the call clears error and
\* recordedChunks and requests the screen.
StartRecording(mic) ==
  /\ justResumed' = FALSE
  /\ UNCHANGED <<mp4Vars, ovVars, appVars, camVars>>
  /\ mounted
  /\ started < MaxSessions
  /\ LET s == started + 1
     IN /\ started' = s
        /\ error' = "null"
        /\ recordedChunks' = <<>>
        /\ includeMic' = [includeMic EXCEPT ![s] = mic]
        /\ pc' = [pc EXCEPT ![s] = "awaitScreen"]
        /\ displayRequests' = [displayRequests EXCEPT ![s] = @ + 1]
  /\ UNCHANGED <<isRecording, isPaused, recordingTime, mediaRecorderRef, mounted,
                 micStream, combinedStream, totalBytes, hasVideo, hasSysAudio,
                 recorder, events, result, artifacts, errors, stopCalls,
                 displayOutcome>>
  /\ UNCHANGED cleanupVars

\* a denial that the inner catch does not recognise and rethrows to the outer one
ScreenDeniedRethrown(s) ==
  /\ justResumed' = FALSE
  /\ UNCHANGED <<mp4Vars, ovVars, appVars, camVars>>
  /\ pc[s] = "awaitScreen"
  /\ displayOutcome' = [displayOutcome EXCEPT ![s] = "NotAllowedError"]
  /\ error' = ErrStart
  /\ errors' = [errors EXCEPT ![s] = Append(@, ErrStart)]
  /\ cleanup(streamsRef, streams, audioContextRef, ctx, timerIntervalRef, liveTimers)
  /\ result' = [result EXCEPT ![s] = "false"]
  /\ pc' = [pc EXCEPT ![s] = "returned"]
  /\ UNCHANGED <<isRecording, isPaused, recordingTime, recordedChunks,
                 mediaRecorderRef, mounted, started, includeMic, micStream,
                 combinedStream, totalBytes, hasVideo, hasSysAudio, recorder,
                 events, artifacts, stopCalls, displayRequests>>

\* getDisplayMedia rejects with NotAllowedError
ScreenDenied(s) ==
  /\ justResumed' = FALSE
  /\ UNCHANGED <<mp4Vars, ovVars, appVars, camVars>>
  /\ pc[s] = "awaitScreen"
  /\ displayOutcome' = [displayOutcome EXCEPT ![s] = "NotAllowedError"]
  /\ error' = ErrPermission
  /\ errors' = [errors EXCEPT ![s] = Append(@, ErrPermission)]
  /\ result' = [result EXCEPT ![s] = "false"]
  /\ pc' = [pc EXCEPT ![s] = "returned"]
  /\ UNCHANGED <<isRecording, isPaused, recordingTime, recordedChunks,
                 mediaRecorderRef, mounted, started, includeMic, micStream,
                 combinedStream, totalBytes, hasVideo, hasSysAudio, recorder,
                 events, artifacts, stopCalls, displayRequests>>
  /\ UNCHANGED cleanupVars

\* getDisplayMedia rejects with another error: the outer catch
ScreenFailed(s) ==
  /\ justResumed' = FALSE
  /\ UNCHANGED <<mp4Vars, ovVars, appVars, camVars>>
  /\ pc[s] = "awaitScreen"
  /\ displayOutcome' = [displayOutcome EXCEPT ![s] = "OtherError"]
  /\ error' = ErrStart
  /\ errors' = [errors EXCEPT ![s] = Append(@, ErrStart)]
  /\ cleanup(streamsRef, streams, audioContextRef, ctx, timerIntervalRef, liveTimers)
  /\ result' = [result EXCEPT ![s] = "false"]
  /\ pc' = [pc EXCEPT ![s] = "returned"]
  /\ UNCHANGED <<isRecording, isPaused, recordingTime, recordedChunks,
                 mediaRecorderRef, mounted, started, includeMic, micStream,
                 combinedStream, totalBytes, hasVideo, hasSysAudio, recorder,
                 events, artifacts, stopCalls, displayRequests>>

\* getDisplayMedia resolves with a stream of `video` video tracks and `audio`
\* system-audio tracks
ScreenGranted(s, video, audio) ==
  /\ justResumed' = FALSE
  /\ UNCHANGED <<mp4Vars, ovVars, appVars, camVars>>
  /\ pc[s] = "awaitScreen"
  /\ displayOutcome' = [displayOutcome EXCEPT ![s] = "granted"]
  /\ hasVideo' = [hasVideo EXCEPT ![s] = video]
  /\ hasSysAudio' = [hasSysAudio EXCEPT ![s] = audio]
  /\ LET sr == Append(streamsRef, <<s, "screen">>)
         st == [streams EXCEPT ![<<s, "screen">>] = "live"]
     IN IF ~video
        THEN /\ error' = ErrNoVideo
             /\ errors' = [errors EXCEPT ![s] = Append(@, ErrNoVideo)]
             /\ cleanup(sr, st, audioContextRef, ctx, timerIntervalRef, liveTimers)
             /\ result' = [result EXCEPT ![s] = "false"]
             /\ pc' = [pc EXCEPT ![s] = "returned"]
             /\ UNCHANGED <<isRecording, recordingTime, mediaRecorderRef,
                            micStream, combinedStream, recorder>>
        ELSE IF includeMic[s]
        THEN /\ streamsRef' = sr
             /\ streams' = st
             /\ pc' = [pc EXCEPT ![s] = "awaitMic"]
             /\ UNCHANGED <<isRecording, recordingTime, mediaRecorderRef,
                            micStream, combinedStream, recorder, error, errors,
                            result, ctx, audioContextRef, liveTimers,
                            timerIntervalRef>>
        ELSE startTail(s, sr, st, audio, "null")
  /\ UNCHANGED <<isPaused, recordedChunks, mounted, started, includeMic,
                 totalBytes, events, artifacts, stopCalls, displayRequests>>

\* getUserMedia resolves: the microphone stream is pushed and recording starts
MicGranted(s) ==
  /\ justResumed' = FALSE
  /\ UNCHANGED <<mp4Vars, ovVars, appVars, camVars>>
  /\ pc[s] = "awaitMic"
  /\ startTail(s, Append(streamsRef, <<s, "mic">>),
               [streams EXCEPT ![<<s, "mic">>] = "live"], hasSysAudio[s], "granted")
  /\ UNCHANGED <<isPaused, recordedChunks, mounted, started, includeMic,
                 totalBytes, hasVideo, hasSysAudio, events, artifacts, stopCalls,
                 displayRequests, displayOutcome>>

\* a microphone failure that is not caught locally and reaches the outer catch
MicFailedFatal(s) ==
  /\ justResumed' = FALSE
  /\ UNCHANGED <<mp4Vars, ovVars, appVars, camVars>>
  /\ pc[s] = "awaitMic"
  /\ micStream' = [micStream EXCEPT ![s] = "null"]
  /\ error' = ErrStart
  /\ errors' = [errors EXCEPT ![s] = Append(@, ErrStart)]
  /\ cleanup(streamsRef, streams, audioContextRef, ctx, timerIntervalRef, liveTimers)
  /\ result' = [result EXCEPT ![s] = "false"]
  /\ pc' = [pc EXCEPT ![s] = "returned"]
  /\ UNCHANGED <<isRecording, isPaused, recordingTime, recordedChunks,
                 mediaRecorderRef, mounted, started, includeMic,
                 combinedStream, totalBytes, hasVideo, hasSysAudio, recorder,
                 events, artifacts, stopCalls, displayRequests, displayOutcome>>

\* getUserMedia rejects: micStream = null and recording starts without it
MicFailed(s) ==
  /\ justResumed' = FALSE
  /\ UNCHANGED <<mp4Vars, ovVars, appVars, camVars>>
  /\ pc[s] = "awaitMic"
  /\ startTail(s, streamsRef, streams, hasSysAudio[s], "null")
  /\ UNCHANGED <<isPaused, recordedChunks, mounted, started, includeMic,
                 totalBytes, hasVideo, hasSysAudio, events, artifacts, stopCalls,
                 displayRequests, displayOutcome>>

\* stopRecording() is called from a handler
stopRecordingCalled ==
  /\ justResumed' = FALSE
  /\ UNCHANGED <<mp4Vars, ovVars, camVars>>
  /\ mounted
  /\ started > 0
  /\ stopRecording(streams)
  /\ UNCHANGED <<recordingTime, recordedChunks, error, mediaRecorderRef, mounted,
                 started, pc, includeMic, micStream, combinedStream, totalBytes,
                 hasVideo, hasSysAudio, result, artifacts, errors,
                 displayRequests, displayOutcome>>

\* the caller calls stopRecording()
StopRecording == stopRecordingCalled /\ UNCHANGED appVars

\* the screen's video track ends (the browser's "stop sharing"): its onended
\* handler calls stopRecording()
ScreenTrackEnded(s) ==
  /\ justResumed' = FALSE
  /\ UNCHANGED <<mp4Vars, ovVars, appVars, camVars>>
  /\ pc[s] \in {"awaitMic", "returned"}
  /\ hasVideo[s]
  /\ streams[<<s, "screen">>] = "live"
  /\ stopRecording([streams EXCEPT ![<<s, "screen">>] = "stopped"])
  /\ UNCHANGED <<recordingTime, recordedChunks, error, mediaRecorderRef, mounted,
                 started, pc, includeMic, micStream, combinedStream, totalBytes,
                 hasVideo, hasSysAudio, result, artifacts, errors,
                 displayRequests, displayOutcome>>

PauseRecording ==
  /\ justResumed' = FALSE
  /\ UNCHANGED <<mp4Vars, ovVars, appVars, camVars>>
  /\ mounted
  /\ mediaRecorderRef # 0
  /\ recorder[mediaRecorderRef] = "recording"
  /\ recorder' = [recorder EXCEPT ![mediaRecorderRef] = "paused"]
  /\ isPaused' = TRUE
  /\ liveTimers' = IF timerIntervalRef # 0 THEN liveTimers \ {timerIntervalRef}
                   ELSE liveTimers
  /\ UNCHANGED <<isRecording, recordingTime, recordedChunks, error,
                 mediaRecorderRef, timerIntervalRef, streamsRef, audioContextRef,
                 mounted, started, pc, includeMic, micStream, combinedStream,
                 totalBytes, streams, hasVideo, hasSysAudio, ctx, events, result,
                 artifacts, errors, stopCalls, displayRequests, displayOutcome>>

\* resumeRecording that restarts the counter from 0
ResumeRecordingResets ==
  /\ justResumed' = TRUE
  /\ UNCHANGED <<mp4Vars, ovVars, appVars, camVars>>
  /\ mounted
  /\ mediaRecorderRef # 0
  /\ recorder[mediaRecorderRef] = "paused"
  /\ recorder' = [recorder EXCEPT ![mediaRecorderRef] = "recording"]
  /\ isPaused' = FALSE
  /\ recordingTime' = 0
  /\ timerIntervalRef' = FreshTimer
  /\ liveTimers' = liveTimers \cup {FreshTimer}
  /\ UNCHANGED <<isRecording, recordedChunks, error,
                 mediaRecorderRef, streamsRef, audioContextRef, mounted, started,
                 pc, includeMic, micStream, combinedStream, totalBytes, streams,
                 hasVideo, hasSysAudio, ctx, events, result, artifacts, errors,
                 stopCalls, displayRequests, displayOutcome>>

ResumeRecording ==
  /\ justResumed' = TRUE
  /\ UNCHANGED <<mp4Vars, ovVars, appVars, camVars>>
  /\ mounted
  /\ mediaRecorderRef # 0
  /\ recorder[mediaRecorderRef] = "paused"
  /\ recorder' = [recorder EXCEPT ![mediaRecorderRef] = "recording"]
  /\ isPaused' = FALSE
  /\ timerIntervalRef' = FreshTimer
  /\ liveTimers' = liveTimers \cup {FreshTimer}
  /\ UNCHANGED <<isRecording, recordingTime, recordedChunks, error,
                 mediaRecorderRef, streamsRef, audioContextRef, mounted, started,
                 pc, includeMic, micStream, combinedStream, totalBytes, streams,
                 hasVideo, hasSysAudio, ctx, events, result, artifacts, errors,
                 stopCalls, displayRequests, displayOutcome>>

\* an interval fires: setRecordingTime(prev => prev + 1)
Tick(t) ==
  /\ justResumed' = FALSE
  /\ UNCHANGED <<mp4Vars, ovVars, appVars, camVars>>
  /\ t \in liveTimers
  /\ recordingTime < MaxTime
  /\ recordingTime' = recordingTime + 1
  /\ UNCHANGED <<isRecording, isPaused, recordedChunks, error, mediaRecorderRef,
                 mounted, started, pc, includeMic, micStream, combinedStream,
                 totalBytes, hasVideo, hasSysAudio, recorder, events, result,
                 artifacts, errors, stopCalls, displayRequests, displayOutcome>>
  /\ UNCHANGED cleanupVars

\* recorder.ondataavailable: totalBytes after a blob of `size` bytes
ondataavailable(tb, size) == IF size > 0 THEN tb + size ELSE tb

\* recorder.onstop with `tb` bytes accumulated, `err` and `errs` the error state
\* and the call's reports when it runs: publish the blob, or the
\* empty-recording error, and clean up
onstop(s, tb, err, errs) ==
  /\ IF tb = 0
     THEN /\ recordedChunks' = <<>>
          /\ error' = ErrEmpty
          /\ errors' = [errors EXCEPT ![s] = Append(errs, ErrEmpty)]
          /\ UNCHANGED artifacts
     ELSE /\ recordedChunks' = <<[session |-> s, size |-> tb]>>
          /\ artifacts' = [artifacts EXCEPT ![s] = @ + 1]
          /\ error' = err
          /\ errors' = [errors EXCEPT ![s] = errs]
  /\ cleanup(streamsRef, streams, audioContextRef, ctx, timerIntervalRef, liveTimers)

\* a recording recorder delivers a timeslice (start(1000)) of `size` bytes
TimesliceData(s, size) ==
  /\ justResumed' = FALSE
  /\ UNCHANGED <<mp4Vars, ovVars, appVars, camVars>>
  /\ recorder[s] = "recording"
  /\ events[s] = <<>>
  /\ totalBytes[s] + size <= MaxBytes
  /\ totalBytes' = [totalBytes EXCEPT ![s] = ondataavailable(@, size)]
  /\ UNCHANGED <<isRecording, isPaused, recordingTime, recordedChunks, error,
                 mediaRecorderRef, mounted, started, pc, includeMic, micStream,
                 combinedStream, hasVideo, hasSysAudio, recorder, events, result,
                 artifacts, errors, stopCalls, displayRequests, displayOutcome>>
  /\ UNCHANGED cleanupVars

\* the task queued by requestData(): dataavailable with what was gathered
DeliverData(s, size) ==
  /\ justResumed' = FALSE
  /\ UNCHANGED <<mp4Vars, ovVars, appVars, camVars>>
  /\ events[s] # <<>> /\ Head(events[s]) = "data"
  /\ totalBytes[s] + size <= MaxBytes
  /\ events' = [events EXCEPT ![s] = Tail(@)]
  /\ totalBytes' = [totalBytes EXCEPT ![s] = ondataavailable(@, size)]
  /\ UNCHANGED <<isRecording, isPaused, recordingTime, recordedChunks, error,
                 mediaRecorderRef, mounted, started, pc, includeMic, micStream,
                 combinedStream, hasVideo, hasSysAudio, recorder, result,
                 artifacts, errors, stopCalls, displayRequests, displayOutcome>>
  /\ UNCHANGED cleanupVars

\* the task queued when the recorder stops: dataavailable with the rest, then stop
DeliverStop(s, size) ==
  /\ justResumed' = FALSE
  /\ UNCHANGED <<mp4Vars, ovVars, appVars, camVars>>
  /\ events[s] # <<>> /\ Head(events[s]) = "stop"
  /\ totalBytes[s] + size <= MaxBytes
  /\ events' = [events EXCEPT ![s] = Tail(@)]
  /\ totalBytes' = [totalBytes EXCEPT ![s] = ondataavailable(@, size)]
  /\ onstop(s, ondataavailable(totalBytes[s], size), error, errors[s])
  /\ UNCHANGED <<isRecording, isPaused, recordingTime, mediaRecorderRef, mounted,
                 started, pc, includeMic, micStream, combinedStream,
                 hasVideo, hasSysAudio, recorder, result, stopCalls,
                 displayRequests, displayOutcome>>

\* the task queued when the encoder fails: error (recorder.onerror reports the
\* encoder error), then dataavailable, then stop
DeliverError(s, size) ==
  /\ justResumed' = FALSE
  /\ UNCHANGED <<mp4Vars, ovVars, appVars, camVars>>
  /\ events[s] # <<>> /\ Head(events[s]) = "error"
  /\ totalBytes[s] + size <= MaxBytes
  /\ events' = [events EXCEPT ![s] = Tail(@)]
  /\ totalBytes' = [totalBytes EXCEPT ![s] = ondataavailable(@, size)]
  /\ onstop(s, ondataavailable(totalBytes[s], size), ErrEncoder,
            Append(errors[s], ErrEncoder))
  /\ UNCHANGED <<isRecording, isPaused, recordingTime, mediaRecorderRef, mounted,
                 started, pc, includeMic, micStream, combinedStream,
                 hasVideo, hasSysAudio, recorder, result, stopCalls,
                 displayRequests, displayOutcome>>

\* the encoder fails: the recorder becomes inactive and queues the task that
\* fires error, dataavailable and stop
EncoderError(s) ==
  /\ justResumed' = FALSE
  /\ UNCHANGED <<mp4Vars, ovVars, appVars, camVars>>
  /\ recorder[s] \in {"recording", "paused"}
  /\ recorder' = [recorder EXCEPT ![s] = "inactive"]
  /\ events' = [events EXCEPT ![s] = @ \o <<"error">>]
  /\ UNCHANGED <<isRecording, isPaused, recordingTime, recordedChunks, error,
                 mediaRecorderRef, mounted, started, pc, includeMic, micStream,
                 combinedStream, totalBytes, hasVideo, hasSysAudio, result,
                 artifacts, errors, stopCalls, displayRequests, displayOutcome>>
  /\ UNCHANGED cleanupVars

\* every track of the recorded stream has ended: the recorder becomes inactive
\* and queues the task that fires dataavailable and stop
TracksEnded(s) ==
  /\ justResumed' = FALSE
  /\ UNCHANGED <<mp4Vars, ovVars, appVars, camVars>>
  /\ recorder[s] \in {"recording", "paused"}
  /\ ~StreamActive(s, combinedStream[s], streams, ctx)
  /\ recorder' = [recorder EXCEPT ![s] = "inactive"]
  /\ events' = [events EXCEPT ![s] = @ \o <<"stop">>]
  /\ UNCHANGED <<isRecording, isPaused, recordingTime, recordedChunks, error,
                 mediaRecorderRef, mounted, started, pc, includeMic, micStream,
                 combinedStream, totalBytes, hasVideo, hasSysAudio, result,
                 artifacts, errors, stopCalls, displayRequests, displayOutcome>>
  /\ UNCHANGED cleanupVars

\* the component unmounts: the effect's cleanup runs cleanup(); no call is made
\* on the hook afterwards, but pending promises and events still run
Unmount ==
  /\ justResumed' = FALSE
  /\ UNCHANGED <<mp4Vars, ovVars, appVars, camVars>>
  /\ mounted
  /\ mounted' = FALSE
  /\ cleanup(streamsRef, streams, audioContextRef, ctx, timerIntervalRef, liveTimers)
  /\ UNCHANGED <<isRecording, isPaused, recordingTime, recordedChunks, error,
                 mediaRecorderRef, started, pc, includeMic, micStream,
                 combinedStream, totalBytes, hasVideo, hasSysAudio, recorder,
                 events, result, artifacts, errors, stopCalls, displayRequests, displayOutcome>>

RecNext ==
  \/ \E mic \in BOOLEAN : StartRecording(mic)
  \/ \E s \in Sessions : ScreenDenied(s)
  \/ \E s \in Sessions : ScreenFailed(s)
  \/ \E s \in Sessions, video \in BOOLEAN, audio \in BOOLEAN : ScreenGranted(s, video, audio)
  \/ \E s \in Sessions : MicGranted(s)
  \/ \E s \in Sessions : MicFailed(s)
  \/ StopRecording
  \/ \E s \in Sessions : ScreenTrackEnded(s)
  \/ PauseRecording
  \/ ResumeRecording
  \/ \E t \in 1..(MaxSessions + 1) : Tick(t)
  \/ \E s \in Sessions, size \in 0..1 : TimesliceData(s, size)
  \/ \E s \in Sessions, size \in 0..1 : DeliverData(s, size)
  \/ \E s \in Sessions, size \in 0..1 : DeliverError(s, size)
  \/ \E s \in Sessions, size \in 0..1 : DeliverStop(s, size)
  \/ \E s \in Sessions : EncoderError(s)
  \/ \E s \in Sessions : TracksEnded(s)
  \/ Unmount

\* ============================================================= Part II
\* ------------------------------------------------------------- helpers
\* the awaits of one call that are operations on its FFmpeg object
FfmpegOps == {"writing", "exec", "fallback", "readFile", "delInput", "delOutput"}

\* the awaits inside the try block, where the abort listener is registered
TryStages == {"reading", "writing", "exec", "fallback", "readFile"}

\* the jobs of a set in call order
SeqOf(S) ==
  CHOOSE q \in [1..Cardinality(S) -> S] :
    \A a, b \in 1..Cardinality(S) : a < b => q[a] < q[b]

clamp01(value) == IF value < 0 THEN 0 ELSE IF value > One THEN One ELSE value

Max(a, b) == IF a >= b THEN a ELSE b

timeToSeconds(time) == IF time <= 0 THEN 0 ELSE time \div MicrosPerSecond

\* a log line, by what the two regular expressions find in it: msg.tag is the
\* marker it carries ("Duration", "time" or "other"), h, m, s the clock after it
parseTimeFromLog(msg) ==
  IF msg.tag # "time" THEN -1 ELSE msg.h * 3600 + msg.m * 60 + msg.s

\* 0 is the null the caller tests with `if (duration)`
parseDurationFromLog(msg) ==
  IF msg.tag # "Duration" THEN 0
  ELSE LET total == msg.h * 3600 + msg.m * 60 + msg.s
       IN IF total <= 0 THEN 0 ELSE total

\* a / b of two numbers of seconds, in thousandths
Ratio(seconds, duration) == (seconds * One) \div duration

\* reportProgress that delivers the clamped input instead of the running maximum
reportProgressLatest(progress01, t) ==
  IF activeProgressCallback = 0
  THEN UNCHANGED <<activeLastProgress01, activeLastUpdateMs, lastDelivered, lastInput,
                         deliveredAt, lastGap>>
  ELSE LET clamped == clamp01(progress01)
       IN IF t - activeLastUpdateMs < ThrottleMs /\ clamped < NearlyDone
          THEN UNCHANGED <<activeLastProgress01, activeLastUpdateMs, lastDelivered, lastInput,
                         deliveredAt, lastGap>>
          ELSE /\ activeLastProgress01' = clamped
               /\ activeLastUpdateMs' = t
               /\ lastDelivered' = [lastDelivered EXCEPT ![activeProgressCallback] = clamped]
               /\ lastInput' = [lastInput EXCEPT ![activeProgressCallback] = clamped]
               /\ deliveredAt' = [deliveredAt EXCEPT ![activeProgressCallback] = t]
               /\ lastGap' = [lastGap EXCEPT ![activeProgressCallback] =
                               IF deliveredAt[activeProgressCallback] = -1 THEN -1
                               ELSE t - deliveredAt[activeProgressCallback]]

\* reportProgress whose rate limit makes no exception for values near 1
reportProgressNoExemption(progress01, t) ==
  IF activeProgressCallback = 0
  THEN UNCHANGED <<activeLastProgress01, activeLastUpdateMs, lastDelivered, lastInput,
                         deliveredAt, lastGap>>
  ELSE LET clamped == clamp01(progress01)
           monotonic == Max(activeLastProgress01, clamped)
       IN IF t - activeLastUpdateMs < ThrottleMs
          THEN UNCHANGED <<activeLastProgress01, activeLastUpdateMs, lastDelivered, lastInput,
                         deliveredAt, lastGap>>
          ELSE /\ activeLastProgress01' = monotonic
               /\ activeLastUpdateMs' = t
               /\ lastDelivered' = [lastDelivered EXCEPT ![activeProgressCallback] = monotonic]
               /\ lastInput' = [lastInput EXCEPT ![activeProgressCallback] = clamped]
               /\ deliveredAt' = [deliveredAt EXCEPT ![activeProgressCallback] = t]
               /\ lastGap' = [lastGap EXCEPT ![activeProgressCallback] =
                               IF deliveredAt[activeProgressCallback] = -1 THEN -1
                               ELSE t - deliveredAt[activeProgressCallback]]

\* reportProgress(progress01) when Date.now() is t
reportProgress(progress01, t) ==
  IF activeProgressCallback = 0
  THEN UNCHANGED <<activeLastProgress01, activeLastUpdateMs, lastDelivered, lastInput,
                         deliveredAt, lastGap>>
  ELSE LET clamped == clamp01(progress01)
           monotonic == Max(activeLastProgress01, clamped)
       IN IF t - activeLastUpdateMs < ThrottleMs /\ monotonic < NearlyDone
          THEN UNCHANGED <<activeLastProgress01, activeLastUpdateMs, lastDelivered, lastInput,
                         deliveredAt, lastGap>>
          ELSE /\ activeLastProgress01' = monotonic
               /\ activeLastUpdateMs' = t
               /\ lastDelivered' = [lastDelivered EXCEPT ![activeProgressCallback] = monotonic]
               /\ lastInput' = [lastInput EXCEPT ![activeProgressCallback] = clamped]
               /\ deliveredAt' = [deliveredAt EXCEPT ![activeProgressCallback] = t]
               /\ lastGap' = [lastGap EXCEPT ![activeProgressCallback] =
                               IF deliveredAt[activeProgressCallback] = -1 THEN -1
                               ELSE t - deliveredAt[activeProgressCallback]]

progressVars == <<activeLastProgress01, activeLastUpdateMs, lastDelivered, lastInput,
                  deliveredAt, lastGap>>

\* the jobs whose pending operation FFmpeg.terminate() rejects when
\* resetFfmpeg() runs: those waiting on the module's instance (job `self` has
\* no operation pending when it resets at the end of its finally block)
Victims(self) ==
  IF ffmpegInstance = 0 THEN {}
  ELSE {k \in Jobs \ {self} : /\ ffmpeg[k] = ffmpegInstance
                              /\ jobPc[k] \in FfmpegOps
                              /\ k \notin Range(microQ)}

\* resetFfmpeg that terminates the instance and forgets the load, but keeps
\* the terminated instance in ffmpegInstance
resetFfmpegKeepsInstance ==
  /\ instState' = IF ffmpegInstance # 0
                  THEN [instState EXCEPT ![ffmpegInstance] = "terminated"]
                  ELSE instState
  /\ ffmpegInstance' = ffmpegInstance
  /\ ffmpegLoadPromise' = 0

\* resetFfmpeg(): terminate the module's instance and forget it and the load
resetFfmpeg ==
  /\ instState' = IF ffmpegInstance # 0
                  THEN [instState EXCEPT ![ffmpegInstance] = "terminated"]
                  ELSE instState
  /\ ffmpegInstance' = 0
  /\ ffmpegLoadPromise' = 0

converterVars == <<instState, ffmpegInstance, ffmpegLoadPromise>>

\* the staged input and the output of job j (input-<runId>.webm, output-<runId>.mp4)
inputName(j) == <<j, "input">>

outputName(j) == <<j, "output">>

\* the working space fs after a file has been written to FFmpeg object i
WithFile(fs, i, f) == [fs EXCEPT ![i] = @ \cup {f}]

\* deleteFile that leaves output files in place
deleteFileInputOnly(fs, i, f) ==
  IF f[2] = "output" THEN fs ELSE [fs EXCEPT ![i] = @ \ {f}]

\* the working space fs after ffmpeg.deleteFile(f) on FFmpeg object i
deleteFile(fs, i, f) == [fs EXCEPT ![i] = @ \ {f}]

\* the working space fs after resetFfmpeg(): the worker of the module's
\* instance is terminated and its file system is gone with it
Terminated(fs) ==
  IF ffmpegInstance # 0 THEN [fs EXCEPT ![ffmpegInstance] = {}] ELSE fs

\* ffmpeg.exec(args) of job j: `kind` is "primary" for the arguments of lines
\* 207-227 (video and audio encoders) and "noAudio" for those of 232-245 (-an)
exec(j, kind) == transforms' = [transforms EXCEPT ![j] = Append(@, kind)]

\* opts.onStatus(status) of job j
onStatus(j, status) == statuses' = [statuses EXCEPT ![j] = Append(@, status)]

\* job j starts the operation of `stage` on its FFmpeg object with q the
\* microtasks queued: an object that is not loaded rejects at once
StartOp(j, stage, q) ==
  /\ jobPc' = [jobPc EXCEPT ![j] = stage]
  /\ microQ' = IF instState[ffmpeg[j]] = "loaded" THEN q ELSE Append(q, j)

\* what the catch block rethrows
CatchOutcome(j) == IF aborted[j] \/ signalAborted[j] THEN "AbortError" ELSE "Error"

\* the try block of job j ends with `out`: the finally block up to its first await
EnterFinally(j, out, q) ==
  /\ outcome' = [outcome EXCEPT ![j] = out]
  /\ activeProgressCallback' = 0
  /\ activeDurationSeconds' = 0
  /\ StartOp(j, "delInput", q)

\* the end of the finally block of job j, with fs the working space after the
\* second safeDelete: reset if resetAfter, and settle
Finish(j, q, fs) ==
  /\ jobPc' = [jobPc EXCEPT ![j] = "settled"]
  /\ IF resetAfter[j]
     THEN /\ resetFfmpeg
          /\ files' = Terminated(fs)
          /\ microQ' = q \o SeqOf(Victims(j))
     ELSE /\ UNCHANGED converterVars
          /\ files' = fs
          /\ microQ' = q

\* lines 181-199 of job j: register the abort listener, take over the progress
\* state, and start reading the blob (which rejects at once on an aborted signal)
Prologue(j, q) ==
  /\ activeDurationSeconds' = durationSeconds[j]
  /\ activeProgressCallback' = IF onProgress[j] THEN j ELSE 0
  /\ activeLastProgress01' = 0
  /\ activeLastUpdateMs' = 0
  /\ onStatus(j, "preparing")
  /\ jobPc' = [jobPc EXCEPT ![j] = "reading"]
  /\ microQ' = IF signalAborted[j] THEN Append(q, j) ELSE q

\* the calls that were cancelled and whose promise has rejected
Cancelled == {k \in Jobs : jobPc[k] = "settled" /\ outcome[k] = "AbortError"}

\* ------------------------------------------------------------- actions
\* transcodeToMp4(input, opts) up to its first await: ensureFfmpegLoaded
\* returns the cached instance, the cached load promise, or starts a load.
StartJob(p, r, d) ==
  /\ calls < MaxJobs
  /\ microQ = <<>> \/ sync
  /\ ~p => d = 0
  /\ LET j == calls + 1
     IN /\ calls' = j
        /\ onProgress' = [onProgress EXCEPT ![j] = p]
        /\ resetAfter' = [resetAfter EXCEPT ![j] = r]
        /\ durationSeconds' = [durationSeconds EXCEPT ![j] = d]
        /\ IF ffmpegInstance # 0
           THEN /\ ffmpeg' = [ffmpeg EXCEPT ![j] = ffmpegInstance]
                /\ jobPc' = [jobPc EXCEPT ![j] = "resume"]
                /\ microQ' = Append(microQ, j)
                /\ UNCHANGED <<instState, ffmpegLoadPromise, statuses>>
           ELSE IF ffmpegLoadPromise # 0
           THEN /\ ffmpeg' = [ffmpeg EXCEPT ![j] = ffmpegLoadPromise]
                /\ jobPc' = [jobPc EXCEPT ![j] = "loading"]
                /\ microQ' = IF instState[ffmpegLoadPromise] = "failed"
                             THEN Append(microQ, j) ELSE microQ
                /\ UNCHANGED <<instState, ffmpegLoadPromise, statuses>>
           ELSE /\ instState' = [instState EXCEPT ![j] = "loading"]
                /\ ffmpegLoadPromise' = j
                /\ ffmpeg' = [ffmpeg EXCEPT ![j] = j]
                /\ jobPc' = [jobPc EXCEPT ![j] = "loading"]
                /\ onStatus(j, "loading")
                /\ UNCHANGED microQ
  /\ afterCancel' = [afterCancel EXCEPT ![calls + 1] = Cancelled # {}]
  /\ sync' = TRUE
  /\ UNCHANGED <<ffmpegInstance, activeProgressCallback, activeDurationSeconds,
                 now, aborted, signalAborted, outcome, abortedAt>>
  /\ UNCHANGED progressVars
  /\ UNCHANGED files
  /\ UNCHANGED transforms
  /\ UNCHANGED <<recVars, ovVars, appVars, camVars>>

\* ffmpeg.load() of instance i resolves: line 151 stores it and the load
\* promise resolves, which queues the continuation of every call awaiting it
LoadDone(i) ==
  /\ UNCHANGED faulty
  /\ microQ = <<>>
  /\ instState[i] = "loading"
  /\ instState' = [instState EXCEPT ![i] = "loaded"]
  /\ ffmpegInstance' = i
  /\ LET waiters == {k \in Jobs : jobPc[k] = "loading" /\ ffmpeg[k] = i}
     IN /\ jobPc' = [k \in Jobs |-> IF k \in waiters THEN "resume" ELSE jobPc[k]]
        /\ microQ' = SeqOf(waiters)
  /\ sync' = FALSE
  /\ UNCHANGED <<ffmpegLoadPromise, activeProgressCallback, activeDurationSeconds,
                 now, calls, ffmpeg, aborted, signalAborted, resetAfter,
                 onProgress, durationSeconds, outcome, abortedAt>>
  /\ UNCHANGED progressVars
  /\ UNCHANGED afterCancel
  /\ UNCHANGED transforms
  /\ UNCHANGED files
  /\ UNCHANGED statuses
  /\ UNCHANGED <<recVars, ovVars, appVars, camVars>>

\* the import or ffmpeg.load() of instance i rejects: the load promise rejects
\* and stays in ffmpegLoadPromise
LoadFail(i) ==
  /\ i \in faulty \/ Cardinality(faulty) < MaxFaultyJobs
  /\ faulty' = faulty \cup {i}
  /\ microQ = <<>>
  /\ instState[i] = "loading"
  /\ instState' = [instState EXCEPT ![i] = "failed"]
  /\ microQ' = SeqOf({k \in Jobs : jobPc[k] = "loading" /\ ffmpeg[k] = i})
  /\ sync' = FALSE
  /\ UNCHANGED <<ffmpegInstance, ffmpegLoadPromise, activeProgressCallback,
                 activeDurationSeconds, now, calls, jobPc, ffmpeg, aborted,
                 signalAborted, resetAfter, onProgress, durationSeconds, outcome,
                 abortedAt>>
  /\ UNCHANGED progressVars
  /\ UNCHANGED afterCancel
  /\ UNCHANGED transforms
  /\ UNCHANGED files
  /\ UNCHANGED statuses
  /\ UNCHANGED <<recVars, ovVars, appVars, camVars>>

\* microtask: the await of line 179 rejects, outside the try block
LoadRejected(j) ==
  /\ UNCHANGED faulty
  /\ microQ # <<>> /\ Head(microQ) = j
  /\ jobPc[j] = "loading"
  /\ jobPc' = [jobPc EXCEPT ![j] = "settled"]
  /\ outcome' = [outcome EXCEPT ![j] = "Error"]
  /\ microQ' = Tail(microQ)
  /\ sync' = FALSE
  /\ UNCHANGED <<activeProgressCallback, activeDurationSeconds, now, calls,
                 ffmpeg, aborted, signalAborted, resetAfter, onProgress,
                 durationSeconds, abortedAt>>
  /\ UNCHANGED converterVars
  /\ UNCHANGED progressVars
  /\ UNCHANGED afterCancel
  /\ UNCHANGED transforms
  /\ UNCHANGED files
  /\ UNCHANGED statuses
  /\ UNCHANGED <<recVars, ovVars, appVars, camVars>>

\* microtask: the await of line 179 resolves and the call runs to readBlob
Resume(j) ==
  /\ UNCHANGED faulty
  /\ microQ # <<>> /\ Head(microQ) = j
  /\ jobPc[j] = "resume"
  /\ Prologue(j, Tail(microQ))
  /\ sync' = FALSE
  /\ UNCHANGED <<now, calls, ffmpeg, aborted, signalAborted, resetAfter,
                 onProgress, durationSeconds, outcome, abortedAt, lastDelivered,
                 lastInput, deliveredAt, lastGap>>
  /\ UNCHANGED converterVars
  /\ UNCHANGED afterCancel
  /\ UNCHANGED transforms
  /\ UNCHANGED files
  /\ UNCHANGED <<recVars, ovVars, appVars, camVars>>

\* microtask: readBlobAsUint8Array rejected with AbortError
ReadRejected(j) ==
  /\ UNCHANGED faulty
  /\ microQ # <<>> /\ Head(microQ) = j
  /\ jobPc[j] = "reading"
  /\ EnterFinally(j, "AbortError", Tail(microQ))
  /\ sync' = FALSE
  /\ UNCHANGED <<now, calls, ffmpeg, aborted, signalAborted, resetAfter,
                 onProgress, durationSeconds, abortedAt>>
  /\ UNCHANGED converterVars
  /\ UNCHANGED progressVars
  /\ UNCHANGED afterCancel
  /\ UNCHANGED transforms
  /\ UNCHANGED files
  /\ UNCHANGED statuses
  /\ UNCHANGED <<recVars, ovVars, appVars, camVars>>

\* microtask: an operation on a terminated FFmpeg object rejected.  A rejected
\* exec is retried by the fallback exec, a rejected delete is ignored, any
\* other rejection reaches the catch block.
OpRejected(j) ==
  /\ UNCHANGED faulty
  /\ microQ # <<>> /\ Head(microQ) = j
  /\ jobPc[j] \in FfmpegOps
  /\ IF jobPc[j] = "exec"
     THEN /\ StartOp(j, "fallback", Tail(microQ))
          /\ exec(j, "noAudio")
          /\ UNCHANGED <<outcome, activeProgressCallback, activeDurationSeconds>>
          /\ UNCHANGED converterVars
          /\ UNCHANGED files
     ELSE IF jobPc[j] = "delInput"
     THEN /\ StartOp(j, "delOutput", Tail(microQ))
          /\ UNCHANGED <<outcome, activeProgressCallback, activeDurationSeconds>>
          /\ UNCHANGED converterVars
          /\ UNCHANGED <<files, transforms>>
     ELSE IF jobPc[j] = "delOutput"
     THEN /\ Finish(j, Tail(microQ), files)
          /\ UNCHANGED <<outcome, activeProgressCallback, activeDurationSeconds>>
          /\ UNCHANGED transforms
     ELSE /\ EnterFinally(j, CatchOutcome(j), Tail(microQ))
          /\ UNCHANGED converterVars
          /\ UNCHANGED <<files, transforms>>
  /\ sync' = FALSE
  /\ UNCHANGED <<now, calls, ffmpeg, aborted, signalAborted, resetAfter,
                 onProgress, durationSeconds, abortedAt>>
  /\ UNCHANGED progressVars
  /\ UNCHANGED afterCancel
  /\ UNCHANGED statuses
  /\ UNCHANGED <<recVars, ovVars, appVars, camVars>>

\* the FileReader loads the blob: line 200, then ffmpeg.writeFile
ReadDone(j) ==
  /\ UNCHANGED faulty
  /\ microQ = <<>>
  /\ jobPc[j] = "reading"
  /\ IF signalAborted[j]
     THEN EnterFinally(j, "AbortError", <<>>)
     ELSE /\ StartOp(j, "writing", <<>>)
          /\ UNCHANGED <<outcome, activeProgressCallback, activeDurationSeconds>>
  /\ sync' = FALSE
  /\ UNCHANGED <<now, calls, ffmpeg, aborted, signalAborted, resetAfter,
                 onProgress, durationSeconds, abortedAt>>
  /\ UNCHANGED converterVars
  /\ UNCHANGED progressVars
  /\ UNCHANGED afterCancel
  /\ UNCHANGED transforms
  /\ UNCHANGED files
  /\ UNCHANGED statuses
  /\ UNCHANGED <<recVars, ovVars, appVars, camVars>>

\* reader.onerror: readBlobAsUint8Array rejects with the reader's error
ReadFail(j) ==
  /\ j \in faulty \/ Cardinality(faulty) < MaxFaultyJobs
  /\ faulty' = faulty \cup {j}
  /\ microQ = <<>>
  /\ jobPc[j] = "reading"
  /\ EnterFinally(j, CatchOutcome(j), <<>>)
  /\ sync' = FALSE
  /\ UNCHANGED <<now, calls, ffmpeg, aborted, signalAborted, resetAfter,
                 onProgress, durationSeconds, abortedAt>>
  /\ UNCHANGED converterVars
  /\ UNCHANGED progressVars
  /\ UNCHANGED afterCancel
  /\ UNCHANGED transforms
  /\ UNCHANGED files
  /\ UNCHANGED statuses
  /\ UNCHANGED <<recVars, ovVars, appVars, camVars>>

\* job j's operation of `stage` is pending on a live FFmpeg object
Pending(j, stage) ==
  /\ microQ = <<>>
  /\ jobPc[j] = stage
  /\ instState[ffmpeg[j]] = "loaded"

\* an operation of the try block resolves and the next one starts
Advance(j, next) ==
  /\ StartOp(j, next, <<>>)
  /\ sync' = FALSE
  /\ UNCHANGED <<activeProgressCallback, activeDurationSeconds, now, calls,
                 ffmpeg, aborted, signalAborted, resetAfter, onProgress,
                 durationSeconds, outcome, abortedAt>>
  /\ UNCHANGED converterVars
  /\ UNCHANGED progressVars
  /\ UNCHANGED afterCancel
  /\ UNCHANGED <<recVars, ovVars, appVars, camVars>>

\* an operation of the try block rejects into the catch block
Fail(j) ==
  /\ EnterFinally(j, CatchOutcome(j), <<>>)
  /\ sync' = FALSE
  /\ UNCHANGED <<now, calls, ffmpeg, aborted, signalAborted, resetAfter,
                 onProgress, durationSeconds, abortedAt>>
  /\ UNCHANGED converterVars
  /\ UNCHANGED progressVars
  /\ UNCHANGED afterCancel
  /\ UNCHANGED transforms
  /\ UNCHANGED statuses
  /\ UNCHANGED <<recVars, ovVars, appVars, camVars>>

\* ffmpeg.writeFile resolves: 'converting', and the primary exec starts
WriteFileDone(j) ==
  /\ UNCHANGED faulty
  /\ Pending(j, "writing")
  /\ Advance(j, "exec")
  /\ onStatus(j, "converting")
  /\ exec(j, "primary")
  /\ files' = WithFile(files, ffmpeg[j], inputName(j))

\* ffmpeg.writeFile rejects, with the file written in part or not at all
WriteFileFail(j) ==
  /\ j \in faulty \/ Cardinality(faulty) < MaxFaultyJobs
  /\ faulty' = faulty \cup {j}
  /\ Pending(j, "writing")
  /\ Fail(j)
  /\ \E partial \in BOOLEAN :
       files' = IF partial THEN WithFile(files, ffmpeg[j], inputName(j)) ELSE files

\* the primary exec resolves: 'finalizing', and readFile starts
ExecDone(j) ==
  /\ UNCHANGED faulty
  /\ Pending(j, "exec")
  /\ Advance(j, "readFile")
  /\ onStatus(j, "finalizing")
  /\ UNCHANGED transforms
  /\ files' = WithFile(files, ffmpeg[j], outputName(j))

\* a retry that reports 'converting' again
ExecFailReportsAgain(j) ==
  /\ j \in faulty \/ Cardinality(faulty) < MaxFaultyJobs
  /\ faulty' = faulty \cup {j}
  /\ Pending(j, "exec")
  /\ Advance(j, "fallback")
  /\ onStatus(j, "converting")
  /\ exec(j, "noAudio")
  /\ \E partial \in BOOLEAN :
       files' = IF partial THEN WithFile(files, ffmpeg[j], outputName(j)) ELSE files

\* the primary exec rejects, with the output written in part or not at all:
\* the inner catch starts the fallback exec
ExecFail(j) ==
  /\ j \in faulty \/ Cardinality(faulty) < MaxFaultyJobs
  /\ faulty' = faulty \cup {j}
  /\ Pending(j, "exec")
  /\ Advance(j, "fallback")
  /\ UNCHANGED statuses
  /\ exec(j, "noAudio")
  /\ \E partial \in BOOLEAN :
       files' = IF partial THEN WithFile(files, ffmpeg[j], outputName(j)) ELSE files

\* the fallback exec resolves: 'finalizing', and readFile starts
FallbackDone(j) ==
  /\ UNCHANGED faulty
  /\ Pending(j, "fallback")
  /\ Advance(j, "readFile")
  /\ onStatus(j, "finalizing")
  /\ UNCHANGED transforms
  /\ files' = WithFile(files, ffmpeg[j], outputName(j))

\* a failed retry that is retried again
FallbackFailRetries(j) ==
  /\ j \in faulty \/ Cardinality(faulty) < MaxFaultyJobs
  /\ faulty' = faulty \cup {j}
  /\ Pending(j, "fallback")
  /\ Advance(j, "fallback")
  /\ exec(j, "noAudio")
  /\ UNCHANGED <<statuses, files>>

\* the fallback exec rejects, with the output written in part or not at all
FallbackFail(j) ==
  /\ j \in faulty \/ Cardinality(faulty) < MaxFaultyJobs
  /\ faulty' = faulty \cup {j}
  /\ Pending(j, "fallback")
  /\ Fail(j)
  /\ \E partial \in BOOLEAN :
       files' = IF partial THEN WithFile(files, ffmpeg[j], outputName(j)) ELSE files

\* ffmpeg.readFile resolves: reportProgress(1), return the blob, and the
\* finally block
ReadFileDone(j) ==
  /\ UNCHANGED faulty
  /\ Pending(j, "readFile")
  /\ reportProgress(One, now)
  /\ EnterFinally(j, "resolved", <<>>)
  /\ sync' = FALSE
  /\ UNCHANGED <<now, calls, ffmpeg, aborted, signalAborted, resetAfter, onProgress,
                 durationSeconds, abortedAt>>
  /\ UNCHANGED converterVars
  /\ UNCHANGED afterCancel
  /\ UNCHANGED transforms
  /\ UNCHANGED files
  /\ UNCHANGED statuses
  /\ UNCHANGED <<recVars, ovVars, appVars, camVars>>

ReadFileFail(j) ==
  /\ j \in faulty \/ Cardinality(faulty) < MaxFaultyJobs
  /\ faulty' = faulty \cup {j}
  /\ Pending(j, "readFile")
  /\ Fail(j)
  /\ UNCHANGED files

\* safeDelete(ffmpeg, inputName) returns, whether deleteFile resolved or threw
DeleteInputDone(j) ==
  /\ UNCHANGED faulty
  /\ Pending(j, "delInput")
  /\ Advance(j, "delOutput")
  /\ UNCHANGED <<statuses, transforms>>
  /\ files' = deleteFile(files, ffmpeg[j], inputName(j))

\* safeDelete(ffmpeg, outputName) returns: the end of the finally block
DeleteOutputDone(j) ==
  /\ UNCHANGED faulty
  /\ Pending(j, "delOutput")
  /\ Finish(j, <<>>, deleteFile(files, ffmpeg[j], outputName(j)))
  /\ sync' = FALSE
  /\ UNCHANGED <<activeProgressCallback, activeDurationSeconds, now, calls,
                 ffmpeg, aborted, signalAborted, resetAfter, onProgress,
                 durationSeconds, outcome, abortedAt>>
  /\ UNCHANGED progressVars
  /\ UNCHANGED afterCancel
  /\ UNCHANGED transforms
  /\ UNCHANGED statuses
  /\ UNCHANGED <<recVars, ovVars, appVars, camVars>>

\* some exec is running on a live FFmpeg object, which emits events
Transforming ==
  /\ microQ = <<>>
  /\ \E k \in Jobs : jobPc[k] \in {"exec", "fallback"} /\ instState[ffmpeg[k]] = "loaded"

\* the clock is read by reportProgress alone, which returns before reading it
\* when no callback is registered: time that passes then is counted at the
\* next report
Elapsed(dt) ==
  /\ now + dt <= MaxNow
  /\ activeProgressCallback = 0 => dt = 0
  /\ now' = now + dt

\* the 'progress' handler, for an event {progress, time} at clock now + dt
NativeProgress(progress, time, dt) ==
  /\ UNCHANGED faulty
  /\ Transforming
  /\ Elapsed(dt)
  /\ IF activeProgressCallback = 0
     THEN UNCHANGED progressVars
     ELSE IF progress > 0
     THEN reportProgress(progress, now + dt)
     ELSE IF activeDurationSeconds # 0 /\ time > 0 /\ timeToSeconds(time) > 0
     THEN reportProgress(Ratio(timeToSeconds(time), activeDurationSeconds), now + dt)
     ELSE UNCHANGED progressVars
  /\ sync' = FALSE
  /\ UNCHANGED <<activeProgressCallback, activeDurationSeconds, microQ, calls,
                 jobPc, ffmpeg, aborted, signalAborted, resetAfter, onProgress,
                 durationSeconds, outcome, abortedAt>>
  /\ UNCHANGED converterVars
  /\ UNCHANGED afterCancel
  /\ UNCHANGED transforms
  /\ UNCHANGED files
  /\ UNCHANGED statuses
  /\ UNCHANGED <<recVars, ovVars, appVars, camVars>>

\* the 'log' handler, for a line msg at clock now + dt
LogMessage(msg, dt) ==
  /\ UNCHANGED faulty
  /\ Transforming
  /\ Elapsed(dt)
  /\ LET duration == IF activeDurationSeconds = 0 /\ msg.tag = "Duration"
                        /\ parseDurationFromLog(msg) # 0
                     THEN parseDurationFromLog(msg)
                     ELSE activeDurationSeconds
     IN /\ activeDurationSeconds' = duration
        /\ IF activeProgressCallback = 0 \/ duration = 0 \/ msg.tag # "time"
              \/ parseTimeFromLog(msg) = -1
           THEN UNCHANGED progressVars
           ELSE reportProgress(Ratio(parseTimeFromLog(msg), duration), now + dt)
  /\ sync' = FALSE
  /\ UNCHANGED <<activeProgressCallback, microQ, calls, jobPc, ffmpeg, aborted,
                 signalAborted, resetAfter, onProgress, durationSeconds, outcome,
                 abortedAt>>
  /\ UNCHANGED converterVars
  /\ UNCHANGED afterCancel
  /\ UNCHANGED transforms
  /\ UNCHANGED files
  /\ UNCHANGED statuses
  /\ UNCHANGED <<recVars, ovVars, appVars, camVars>>

\* the caller aborts the signal of job j.  Inside the try block onAbort runs
\* (aborted = true, resetFfmpeg()), and a pending readBlob rejects after it.
Abort(j) ==
  /\ UNCHANGED faulty
  /\ microQ = <<>> \/ sync
  /\ jobPc[j] \notin {"idle", "settled"}
  /\ ~signalAborted[j]
  /\ signalAborted' = [signalAborted EXCEPT ![j] = TRUE]
  /\ abortedAt' = [abortedAt EXCEPT ![j] = jobPc[j]]
  /\ IF jobPc[j] \in TryStages
     THEN /\ aborted' = [aborted EXCEPT ![j] = TRUE]
          /\ resetFfmpeg
          /\ files' = Terminated(files)
          /\ microQ' = microQ \o SeqOf(Victims(0))
                         \o (IF jobPc[j] = "reading" THEN <<j>> ELSE <<>>)
     ELSE /\ UNCHANGED <<aborted, microQ, files>>
          /\ UNCHANGED converterVars
  /\ sync' = TRUE
  /\ UNCHANGED <<activeProgressCallback, activeDurationSeconds, now, calls,
                 jobPc, ffmpeg, resetAfter, onProgress, durationSeconds, outcome>>
  /\ UNCHANGED progressVars
  /\ UNCHANGED afterCancel
  /\ UNCHANGED transforms
  /\ UNCHANGED statuses
  /\ UNCHANGED <<recVars, ovVars, appVars, camVars>>

\* a call of Mp4Spec: every call is given onProgress and a duration
Call(r, d) ==
  /\ UNCHANGED faulty
  /\ Cardinality({k \in Jobs : jobPc[k] \notin {"idle", "settled"}}) < MaxInFlight
  /\ StartJob(TRUE, r, d)

\* a call of ProgressSpec
CallWith(p, r, d) ==
  /\ UNCHANGED faulty
  /\ calls < MaxProgressJobs
  /\ StartJob(p, r, d)

Durations == {0, 4}
NativeProgressValues == {0, 600, 1200}
NativeTimes == {0, 3 * MicrosPerSecond}
LogMessages ==
  { [tag |-> "Duration", h |-> 0, m |-> 0, s |-> 4],
    [tag |-> "time", h |-> 0, m |-> 0, s |-> 1],
    [tag |-> "other", h |-> 0, m |-> 0, s |-> 0] }

\* The calls, the converter and cancellation.  The events of a running
\* transform are left to ProgressNext: they write the progress state only, and
\* no action of Mp4Next but the final reportProgress(1) reads it.
Mp4Next ==
  \/ \E r \in BOOLEAN, d \in Durations \ {0} : Call(r, d)
  \/ \E i \in Instances : LoadDone(i)
  \/ \E i \in Instances : LoadFail(i)
  \/ \E j \in Jobs : LoadRejected(j)
  \/ \E j \in Jobs : Resume(j)
  \/ \E j \in Jobs : ReadRejected(j)
  \/ \E j \in Jobs : OpRejected(j)
  \/ \E j \in Jobs : ReadDone(j)
  \/ \E j \in Jobs : ReadFail(j)
  \/ \E j \in Jobs : WriteFileDone(j)
  \/ \E j \in Jobs : WriteFileFail(j)
  \/ \E j \in Jobs : ExecDone(j)
  \/ \E j \in Jobs : ExecFail(j)
  \/ \E j \in Jobs : FallbackDone(j)
  \/ \E j \in Jobs : FallbackFail(j)
  \/ \E j \in Jobs : ReadFileDone(j)
  \/ \E j \in Jobs : ReadFileFail(j)
  \/ \E j \in Jobs : DeleteInputDone(j)
  \/ \E j \in Jobs : DeleteOutputDone(j)
  \/ \E j \in Jobs : Abort(j)

\* Calls that run to the end, alone or overlapping, with the events their
\* transforms emit: the progress pipeline.
ProgressNext ==
  \/ \E p \in BOOLEAN, r \in BOOLEAN, d \in Durations : CallWith(p, r, d)
  \/ \E i \in Instances : LoadDone(i)
  \/ \E j \in Jobs : Resume(j)
  \/ \E j \in Jobs : OpRejected(j)
  \/ \E j \in Jobs : ReadDone(j)
  \/ \E j \in Jobs : WriteFileDone(j)
  \/ \E j \in Jobs : ExecDone(j)
  \/ \E j \in Jobs : ExecFail(j)
  \/ \E j \in Jobs : FallbackDone(j)
  \/ \E j \in Jobs : ReadFileDone(j)
  \/ \E j \in Jobs : DeleteInputDone(j)
  \/ \E j \in Jobs : DeleteOutputDone(j)
  \/ \E progress \in NativeProgressValues, time \in NativeTimes, dt \in ClockSteps :
       NativeProgress(progress, time, dt)
  \/ \E msg \in LogMessages, dt \in ClockSteps : LogMessage(msg, dt)

\* ============================================================ Part III
\* ------------------------------------------------------------- helpers
\* A handler is computed as a function from the overlay's state, held in a
\* record, to the state it leaves; Commit runs the effects the change
\* triggers and installs the result.
Cur ==
  [overlay |-> overlay, cameraEnabled |-> cameraEnabled,
   canUseDocumentPip |-> canUseDocumentPip, pipMode |-> pipMode,
   pipSize |-> pipSize, isCameraOn |-> isCameraOn, srcObject |-> srcObject,
   pictureInPictureElement |-> pictureInPictureElement,
   documentPipWindowRef |-> documentPipWindowRef,
   documentPipPollRef |-> documentPipPollRef, win |-> win,
   winSize |-> winSize, closedBy |-> closedBy, listening |-> listening,
   livePolls |-> livePolls, op |-> op, autoPc |-> autoPc,
   autoPipAttemptedRef |-> autoPipAttemptedRef, attempts |-> attempts,
   timeoutId |-> timeoutId, bubblePos |-> bubblePos, storedPos |-> storedPos,
   dragRef |-> dragRef, innerWidth |-> innerWidth,
   innerHeight |-> innerHeight, isCameraMirrored |-> isCameraMirrored,
   storedPipSize |-> storedPipSize, storedMirror |-> storedMirror,
   autoDone |-> autoDone, userLeftPip |-> userLeftPip]

isCameraActive(R) == R.cameraEnabled /\ R.isCameraOn
isPipActive(R) == R.pipMode # "none"

\* videoRef.current: the <video> is rendered only while the camera is active
videoRefCurrent(R) == R.overlay = "mounted" /\ isCameraActive(R)

\* PIP_SIZE_PRESETS: width and height of each preset
PIP_SIZE_PRESETS(size) ==
  CASE size = "sm" -> <<200, 200>>
    [] size = "md" -> <<260, 260>>
    [] size = "lg" -> <<320, 320>>

\* a preset advanced the wrong way round (lg, md, sm)
prevPipSize(size) ==
  IF size = "sm" THEN "lg" ELSE IF size = "md" THEN "sm" ELSE "md"

\* cyclePipSize: `nextSize`
nextPipSize(size) ==
  IF size = "sm" THEN "md" ELSE IF size = "md" THEN "lg" ELSE "sm"

\* Math.min(max, Math.max(min, v))
clamp(v, min, max) ==
  LET lower == IF v > min THEN v ELSE min
  IN  IF lower < max THEN lower ELSE max

\* getBubbleSize: the bounding box of the bubble, which is rendered with the
\* preset's width and height while the camera is active; 160 x 160 without it
getBubbleSize(R) ==
  IF R.overlay = "mounted" /\ isCameraActive(R)
    THEN PIP_SIZE_PRESETS(R.pipSize)
    ELSE <<160, 160>>

\* { x: clamp(p.x, margin, innerWidth - w - margin),
\*   y: clamp(p.y, margin, innerHeight - h - margin) }
clampPos(R, p) ==
  LET size == getBubbleSize(R)
  IN  <<clamp(p[1], Margin, R.innerWidth - size[1] - Margin),
        clamp(p[2], Margin, R.innerHeight - size[2] - Margin)>>

\* the effect on pipSize: the position is clamped again for the new size and
\* stored when it changes
pipSizeEffect(R) ==
  IF R.bubblePos = NoPos THEN R
  ELSE LET q == clampPos(R, R.bubblePos)
       IN  IF q = R.bubblePos THEN R
           ELSE [R EXCEPT !.bubblePos = q, !.storedPos = q]

\* isPipSize
isPipSize(raw) == raw \in PipSizes

\* a mount that keeps the initial preset
loadPipSizeDefault(raw) == "sm"

\* the load effect of the size preset, with the render its setPipSize causes
loadPipSize(raw) == IF isPipSize(raw) THEN raw ELSE "sm"

\* the load effect of the mirror flag ('0' and '1' are never written)
loadMirror(raw) == IF raw = "false" THEN FALSE ELSE TRUE

\* String(isCameraMirrored)
String(b) == IF b THEN "true" ELSE "false"

\* if (documentPipPollRef.current !== null) { clearInterval(...); ... = null }
clearPoll(R) ==
  IF R.documentPipPollRef # 0
    THEN [R EXCEPT !.livePolls = @ \ {R.documentPipPollRef},
                   !.documentPipPollRef = 0]
    ELSE R

\* window w is closed (a no-op on a window that is not open)
closeWindow(R, w, by) ==
  IF w # 0 /\ R.win[w] = "open"
    THEN [R EXCEPT !.win[w] = "closed", !.closedBy[w] = by]
    ELSE R

\* if (isMountedRef.current) setPipMode(mode)
setPipModeIfMounted(R, mode) ==
  IF R.overlay = "mounted" THEN [R EXCEPT !.pipMode = mode] ELSE R

\* exitPip up to its await: the poll is cleared
exitPipHead(R) == clearPoll(R)

\* exitPip after its await: the window is closed, the refs dropped, mode NONE
exitPipTail(R) ==
  setPipModeIfMounted(
    [closeWindow(R, R.documentPipWindowRef, "page")
       EXCEPT !.documentPipWindowRef = 0],
    "none")

\* onClose without its test of documentPipWindowRef
onCloseUnguarded(R, w) ==
  setPipModeIfMounted(
    clearPoll([R EXCEPT !.documentPipWindowRef = 0]), "none")

\* onClose of the enterDocumentPip call that opened window w
onClose(R, w) ==
  IF R.documentPipWindowRef # w
    THEN R
    ELSE setPipModeIfMounted(
           clearPoll([R EXCEPT !.documentPipWindowRef = 0]), "none")

\* the browser takes the video out of picture-in-picture and fires
\* leavepictureinpicture; onLeave is registered while the <video> is rendered
leavePictureInPicture(R) ==
  IF ~R.pictureInPictureElement
    THEN R
    ELSE [R EXCEPT !.pictureInPictureElement = FALSE,
                   !.pipMode = IF @ = "video" /\ videoRefCurrent(R)
                                 THEN "none" ELSE @]

\* the handler invocation in slot o returns
finish(R, o) == [R EXCEPT !.op[o] = IdleOp]

\* enterVideoPip up to its await; `retry` says that a rejection is caught by
\* a handler that calls enterVideoPip once more
enterVideoPip(R, o, retry) ==
  IF ~videoRefCurrent(R)
    THEN finish(R, o)
    ELSE [R EXCEPT !.op[o] = [@ EXCEPT !.pc = "reqVideo", !.retry = retry,
                                       !.tried = Append(@, "video")]]

\* enterDocumentPip up to its first await; FALSE when it returns false
enterDocumentPip(R, o, size) ==
  IF videoRefCurrent(R) /\ R.srcObject = "attached"
    THEN [R EXCEPT !.op[o] = [@ EXCEPT !.pc = "reqWindow", !.size = size,
                                       !.tried = Append(@, "document")]]
    ELSE [R EXCEPT !.op[o] = [@ EXCEPT !.tried = Append(@, "document")]]

\* the single-element backend tried before the system backend
enterPipVideoFirst(R, o, size) ==
  enterVideoPip(R, o, R.op[o].kind = "toggle")

\* the try block of togglePip and cyclePipSize: the system backend when it is
\* available, the single-element backend when it is not or it declines
enterPip(R, o, size) ==
  IF R.canUseDocumentPip
    THEN LET D == enterDocumentPip(R, o, size)
         IN  IF D.op[o].pc = "reqWindow"
               THEN D
               ELSE enterVideoPip(D, o, R.op[o].kind = "toggle")
    ELSE enterVideoPip(R, o, R.op[o].kind = "toggle")

\* run() without its test of autoPipAttemptedRef
runUnguarded(R) ==
  IF ~isCameraActive(R) \/ isPipActive(R) \/ ~videoRefCurrent(R)
    THEN R
    ELSE IF R.srcObject # "attached"
      THEN IF R.attempts + 1 > MaxAutoPipAttempts
             THEN [R EXCEPT !.attempts = @ + 1,
                            !.autoPipAttemptedRef = TRUE, !.autoDone = TRUE]
             ELSE [R EXCEPT !.attempts = @ + 1, !.timeoutId = TRUE]
      ELSE [R EXCEPT !.autoPipAttemptedRef = TRUE, !.autoDone = TRUE,
                     !.autoPc = "reqVideo"]

\* the auto-PiP effect: run(), up to its await of enterVideoPip
run(R) ==
  IF ~isCameraActive(R) \/ isPipActive(R) \/ R.autoPipAttemptedRef
     \/ ~videoRefCurrent(R)
    THEN R
    ELSE IF R.srcObject # "attached"
      THEN IF R.attempts + 1 > MaxAutoPipAttempts
             THEN [R EXCEPT !.attempts = @ + 1,
                            !.autoPipAttemptedRef = TRUE, !.autoDone = TRUE]
             ELSE [R EXCEPT !.attempts = @ + 1, !.timeoutId = TRUE]
      ELSE [R EXCEPT !.autoPipAttemptedRef = TRUE, !.autoDone = TRUE,
                     !.autoPc = "reqVideo"]

\* the auto-PiP effect re-runs: its cleanup clears the timeout, then a new
\* closure starts with attempts = 0
autoPipEffect(R) == run([R EXCEPT !.attempts = 0, !.timeoutId = FALSE])

\* the effects of a render: those whose dependencies differ from the
\* previous render (the state before the handler), all of them in the first
\* render of a mount
afterRender(R) ==
  IF R.overlay # "mounted" THEN R ELSE
  LET first == Cur.overlay # "mounted"
      camChanged == isCameraActive(R) # (~first /\ isCameraActive(Cur))
      sizeChanged == first \/ R.pipSize # Cur.pipSize
      mirrorChanged == first \/ R.isCameraMirrored # Cur.isCameraMirrored
      \* localStorage.setItem of the effects on pipSize and isCameraMirrored
      S1 == [R EXCEPT !.storedPipSize = IF sizeChanged THEN R.pipSize ELSE @,
                      !.storedMirror = IF mirrorChanged
                                         THEN String(R.isCameraMirrored) ELSE @]
      S2 == IF sizeChanged THEN pipSizeEffect(S1) ELSE S1
      \* the camera effect: getUserMedia starts, or the stream is stopped and
      \* detached; an unrendered <video> leaves picture-in-picture
      R1 == IF ~camChanged THEN S2
            ELSE IF isCameraActive(S2) THEN [S2 EXCEPT !.srcObject = "pending"]
            ELSE [S2 EXCEPT !.srcObject = "none",
                           !.pictureInPictureElement = FALSE]
      \* if (isCameraActive) return; void exitPip();
      R2 == IF camChanged /\ ~isCameraActive(R1)
              THEN exitPipTail(exitPipHead(R1)) ELSE R1
  IN  IF camChanged \/ isPipActive(R2) # (~first /\ isPipActive(Cur))
        THEN autoPipEffect(R2) ELSE R2

\* a closed window that no ref, interval or pending call refers to can no
\* longer take part in anything: its history is dropped
forget(R) ==
  LET dead == {w \in Windows : /\ R.win[w] = "closed"
                                /\ R.documentPipWindowRef # w
                                /\ w \notin R.livePolls
                                /\ \A o \in Ops : R.op[o].win # w}
  IN  [R EXCEPT !.winSize = [w \in Windows |-> IF w \in dead THEN <<0, 0>> ELSE @[w]],
                !.closedBy = [w \in Windows |-> IF w \in dead THEN "none" ELSE @[w]],
                !.listening = @ \ dead]

Commit(R) ==
  \E S \in {forget(afterRender(R))} :
      /\ overlay' = S.overlay
      /\ cameraEnabled' = S.cameraEnabled
      /\ canUseDocumentPip' = S.canUseDocumentPip
      /\ pipMode' = S.pipMode
      /\ pipSize' = S.pipSize
      /\ isCameraOn' = S.isCameraOn
      /\ srcObject' = S.srcObject
      /\ pictureInPictureElement' = S.pictureInPictureElement
      /\ documentPipWindowRef' = S.documentPipWindowRef
      /\ documentPipPollRef' = S.documentPipPollRef
      /\ win' = S.win
      /\ winSize' = S.winSize
      /\ closedBy' = S.closedBy
      /\ listening' = S.listening
      /\ livePolls' = S.livePolls
      /\ op' = S.op
      /\ autoPc' = S.autoPc
      /\ autoPipAttemptedRef' = S.autoPipAttemptedRef
      /\ attempts' = S.attempts
      /\ timeoutId' = S.timeoutId
      /\ bubblePos' = S.bubblePos
      /\ storedPos' = S.storedPos
      /\ dragRef' = S.dragRef
      /\ innerWidth' = S.innerWidth
      /\ innerHeight' = S.innerHeight
      /\ isCameraMirrored' = S.isCameraMirrored
      /\ storedPipSize' = S.storedPipSize
      /\ storedMirror' = S.storedMirror
      /\ autoDone' = S.autoDone
      /\ userLeftPip' = S.userLeftPip
      /\ UNCHANGED <<recVars, mp4Vars, appVars, camVars>>

\* ------------------------------------------------------------- actions
\* a free slot for a handler invocation
FreeOp(o) == op[o].pc = "idle" /\ \A q \in Ops : q < o => op[q].pc # "idle"

\* the record of a handler invocation that starts in the current render
NewOp(kind) ==
  [IdleOp EXCEPT !.kind = kind, !.pc = "run"]

\* no call of the component is in flight
Quiescent ==
  /\ \A o \in Ops : op[o].pc = "idle"
  /\ autoPc = "idle" /\ livePolls = {}

\* the component is mounted: its state and refs start from their initial
\* values, the size preset and the mirror flag are loaded from localStorage
\* (the render these updates cause included), and the effects run
OverlayMount(cam, can) ==
  /\ \/ overlay = "none"
     \/ overlay = "unmounted" /\ Quiescent /\ can = canUseDocumentPip
  /\ Commit([Cur EXCEPT
        !.overlay = "mounted", !.cameraEnabled = cam, !.isCameraOn = cam,
        !.canUseDocumentPip = can, !.pipMode = "none",
        !.pipSize = loadPipSize(storedPipSize),
        !.isCameraMirrored = loadMirror(storedMirror),
        !.documentPipWindowRef = 0, !.documentPipPollRef = 0,
        !.autoPipAttemptedRef = FALSE, !.attempts = 0, !.timeoutId = FALSE,
        !.bubblePos = NoPos, !.dragRef = NoPos, !.autoDone = FALSE,
        !.userLeftPip = FALSE])

\* the component is removed: the cleanups of its effects run
OverlayUnmount ==
  /\ overlay = "mounted"
  /\ LET R1 == [Cur EXCEPT !.overlay = "unmounted", !.srcObject = "none",
                           !.pictureInPictureElement = FALSE,
                           !.timeoutId = FALSE]
         R2 == [closeWindow(R1, R1.documentPipWindowRef, "page")
                  EXCEPT !.documentPipWindowRef = 0]
     IN  Commit(clearPoll(R2))

\* getUserMedia resolves and the stream is attached to the <video>
CamStreamReady ==
  /\ srcObject = "pending"
  /\ Commit([Cur EXCEPT !.srcObject = "attached"])

\* getUserMedia rejects
CamStreamFailed ==
  /\ srcObject = "pending"
  /\ Commit([Cur EXCEPT !.srcObject = "none"])

\* the timeout of the auto-PiP effect fires: run()
AutoPoll ==
  /\ timeoutId
  /\ Commit(run([Cur EXCEPT !.timeoutId = FALSE]))

\* requestPictureInPicture of the auto-PiP run resolves
AutoVideoResolved ==
  /\ autoPc = "reqVideo"
  /\ videoRefCurrent(Cur) /\ srcObject = "attached"
  /\ Commit(setPipModeIfMounted(
       [Cur EXCEPT !.autoPc = "idle", !.pictureInPictureElement = TRUE],
       "video"))

\* requestPictureInPicture of the auto-PiP run rejects: the error is ignored
AutoVideoRejected ==
  /\ autoPc = "reqVideo"
  /\ Commit([Cur EXCEPT !.autoPc = "idle"])

\* togglePip is clicked
TogglePip(o) ==
  /\ overlay = "mounted" /\ isCameraActive(Cur)
  /\ FreeOp(o)
  /\ LET R == [Cur EXCEPT !.op[o] = NewOp("toggle")]
     IN  IF pipMode # "none"
           THEN IF pictureInPictureElement
                  THEN Commit([exitPipHead(R) EXCEPT !.op[o].pc = "exitAwait"])
                  ELSE Commit(finish(
                         [exitPipTail(exitPipHead(R))
                            EXCEPT !.userLeftPip = TRUE], o))
           ELSE Commit(enterPip(R, o, pipSize))

\* cyclePipSize is clicked
CyclePipSize(o) ==
  /\ overlay = "mounted" /\ isCameraActive(Cur)
  /\ FreeOp(o)
  /\ LET nextSize == nextPipSize(pipSize)
         R == [Cur EXCEPT !.pipSize = nextSize,
                          !.op[o] = [NewOp("cycle") EXCEPT !.size = nextSize]]
     IN  IF pipMode = "none"
           THEN Commit(finish(R, o))
           ELSE IF pictureInPictureElement
                  THEN Commit([exitPipHead(R) EXCEPT !.op[o].pc = "exitAwait"])
                  ELSE Commit(enterPip(exitPipTail(exitPipHead(R)), o, nextSize))

\* the camera-off button of the bubble: void exitPip(); setIsCameraOn(false)
\* (the bubble takes no clicks while promoted: pointer-events-none)
BubbleCameraOff(o) ==
  /\ overlay = "mounted" /\ isCameraActive(Cur) /\ pipMode = "none"
  /\ FreeOp(o)
  /\ LET R == [Cur EXCEPT !.op[o] = NewOp("exit"), !.isCameraOn = FALSE]
     IN  IF pictureInPictureElement
           THEN Commit([exitPipHead(R) EXCEPT !.op[o].pc = "exitAwait"])
           ELSE Commit(finish(exitPipTail(exitPipHead(R)), o))

\* the camera button of the island: await exitPip(); setIsCameraOn(false),
\* or setIsCameraOn(true)
IslandCamera(o) ==
  /\ overlay = "mounted" /\ cameraEnabled
  /\ FreeOp(o)
  /\ LET R == [Cur EXCEPT !.op[o] = NewOp("camera")]
     IN  IF ~isCameraActive(Cur)
           THEN Commit(finish([R EXCEPT !.isCameraOn = TRUE], o))
           ELSE IF pictureInPictureElement
                  THEN Commit([exitPipHead(R) EXCEPT !.op[o].pc = "exitAwait"])
                  ELSE Commit(finish([exitPipTail(exitPipHead(R))
                                        EXCEPT !.isCameraOn = FALSE], o))

\* document.exitPictureInPicture() settles: the video has left
\* picture-in-picture, exitPip goes on and its caller after it
ExitSettled(o) ==
  /\ op[o].pc = "exitAwait"
  /\ LET R == exitPipTail(leavePictureInPicture(Cur))
     IN  CASE op[o].kind = "cycle" -> Commit(enterPip(R, o, op[o].size))
           [] op[o].kind = "camera" ->
                Commit(finish([R EXCEPT !.isCameraOn = FALSE], o))
           [] OTHER ->
                Commit(finish(
                  [R EXCEPT !.userLeftPip = @ \/ op[o].kind = "toggle"], o))

\* documentPictureInPicture.requestWindow resolves with a new window w of
\* the preset's size; the browser closes the window that was open before
WindowResolved(o, w) ==
  /\ op[o].pc = "reqWindow"
  /\ win[w] = "none" /\ \A v \in Windows : v < w => win[v] # "none"
  /\ LET R0 == IF \E v \in Windows : win[v] = "open"
             THEN LET v == CHOOSE x \in Windows : win[x] = "open"
                      C == closeWindow(Cur, v, "browser")
                  IN  IF v \in listening THEN onClose(C, v) ELSE C
             ELSE Cur
     IN  Commit([R0 EXCEPT !.win[w] = "open",
                           !.winSize[w] = PIP_SIZE_PRESETS(op[o].size),
                           !.documentPipWindowRef = w,
                           !.op[o].pc = "play", !.op[o].win = w])

\* requestWindow rejects: togglePip falls back to enterVideoPip in its
\* catch, cyclePipSize ignores the error
WindowRejected(o) ==
  /\ op[o].pc = "reqWindow"
  /\ IF op[o].kind = "toggle"
       THEN Commit(enterVideoPip(Cur, o, FALSE))
       ELSE Commit(finish(Cur, o))

\* pipVideo.play() settles: the close listeners and the poll are installed
\* and the mode becomes DOCUMENT (React drops the update once unmounted)
PlaySettled(o) ==
  /\ op[o].pc = "play"
  /\ LET w == op[o].win
         R == clearPoll([Cur EXCEPT !.listening = @ \cup {w}])
     IN  Commit(finish(
           setPipModeIfMounted(
             [R EXCEPT !.livePolls = @ \cup {w}, !.documentPipPollRef = w],
             "document"),
           o))

\* requestPictureInPicture resolves
VideoResolved(o) ==
  /\ op[o].pc = "reqVideo"
  /\ videoRefCurrent(Cur) /\ srcObject = "attached"
  /\ Commit(finish(
       setPipModeIfMounted([Cur EXCEPT !.pictureInPictureElement = TRUE],
                           "video"),
       o))

\* requestPictureInPicture rejects
VideoRejected(o) ==
  /\ op[o].pc = "reqVideo"
  /\ IF op[o].retry
       THEN Commit(enterVideoPip(Cur, o, FALSE))
       ELSE Commit(finish(Cur, o))

\* the user closes Document PiP window w; pagehide reaches onClose if the
\* listeners are registered already
UserClosesWindow(w) ==
  /\ win[w] = "open"
  /\ LET C == closeWindow(Cur, w, "user")
     IN  Commit(IF w \in listening THEN onClose(C, w) ELSE C)

\* the 250 ms interval of window w fires and finds the window closed
PollTick(w) ==
  /\ w \in livePolls
  /\ win[w] = "closed"
  /\ Commit(onClose(Cur, w))

\* the user closes the video picture-in-picture window
UserLeavesVideoPip ==
  /\ pictureInPictureElement
  /\ Commit(leavePictureInPicture(Cur))

\* initBubblePos, run from the timeout of the effect on bubblePos: the
\* stored position clamped, or the top right corner
InitBubblePos ==
  /\ overlay = "mounted" /\ isCameraActive(Cur)
  /\ bubblePos = NoPos
  /\ LET w == getBubbleSize(Cur)[1]
         right == innerWidth - w - Margin
     IN  Commit([Cur EXCEPT !.bubblePos =
           IF storedPos # NoPos THEN clampPos(Cur, storedPos)
           ELSE <<IF right > Margin THEN right ELSE Margin, Margin>>])

\* onBubblePointerDown with the primary button, at offsetX, offsetY pixels
\* into the bubble
PointerDown(offsetX, offsetY) ==
  /\ overlay = "mounted" /\ isCameraActive(Cur)
  /\ bubblePos # NoPos
  /\ ~isPipActive(Cur)
  /\ Commit([Cur EXCEPT !.dragRef = <<offsetX, offsetY>>])

\* onBubblePointerMove at clientX, clientY
PointerMove(clientX, clientY) ==
  /\ overlay = "mounted" /\ isCameraActive(Cur)
  /\ dragRef # NoPos
  /\ LET q == clampPos(Cur, <<clientX - dragRef[1], clientY - dragRef[2]>>)
     IN  Commit([Cur EXCEPT !.bubblePos = q, !.storedPos = q])

\* onBubblePointerUp
PointerUp ==
  /\ overlay = "mounted" /\ isCameraActive(Cur)
  /\ dragRef # NoPos
  /\ Commit([Cur EXCEPT !.dragRef = NoPos])

\* the viewport is resized to width x height; onResize clamps the position
\* (the listener exists while the component is mounted)
Resize(width, height) ==
  /\ <<width, height>> # <<innerWidth, innerHeight>>
  /\ LET R == [Cur EXCEPT !.innerWidth = width, !.innerHeight = height]
     IN  IF overlay = "mounted" /\ bubblePos # NoPos
           THEN Commit([R EXCEPT !.bubblePos = clampPos(R, bubblePos)])
           ELSE Commit(R)

\* the mirror button: setIsCameraMirrored(prev => !prev)
ToggleMirror ==
  /\ overlay = "mounted" /\ isCameraActive(Cur)
  /\ Commit([Cur EXCEPT !.isCameraMirrored = ~@])

\* the picture-in-picture controller; the timeout of the auto-PiP effect is
\* left pending here (AutoPipNext fires it)
PipNext ==
  \/ \E cam \in BOOLEAN, can \in BOOLEAN : OverlayMount(cam, can)
  \/ CamStreamReady
  \/ CamStreamFailed
  \/ AutoVideoResolved
  \/ AutoVideoRejected
  \/ \E o \in Ops : TogglePip(o)
  \/ \E o \in Ops : CyclePipSize(o)
  \/ \E o \in Ops : BubbleCameraOff(o)
  \/ \E o \in Ops : IslandCamera(o)
  \/ \E o \in Ops : ExitSettled(o)
  \/ \E o \in Ops, w \in Windows : WindowResolved(o, w)
  \/ \E o \in Ops : WindowRejected(o)
  \/ \E o \in Ops : PlaySettled(o)
  \/ \E o \in Ops : VideoResolved(o)
  \/ \E o \in Ops : VideoRejected(o)
  \/ \E w \in Windows : UserClosesWindow(w)
  \/ \E w \in Windows : PollTick(w)
  \/ UserLeavesVideoPip

\* the auto-PiP effect, with the handlers and events that re-run it
AutoPipNext ==
  \/ \E cam \in BOOLEAN, can \in BOOLEAN : OverlayMount(cam, can)
  \/ OverlayUnmount
  \/ CamStreamReady
  \/ CamStreamFailed
  \/ AutoPoll
  \/ AutoVideoResolved
  \/ AutoVideoRejected
  \/ \E o \in Ops : TogglePip(o)
  \/ \E o \in Ops : BubbleCameraOff(o)
  \/ \E o \in Ops : IslandCamera(o)
  \/ \E o \in Ops : ExitSettled(o)
  \/ \E o \in Ops : WindowRejected(o)
  \/ \E o \in Ops : VideoResolved(o)
  \/ \E o \in Ops : VideoRejected(o)
  \/ UserLeavesVideoPip

\* the drag handlers, with the promotions that can happen during a drag
DragNext ==
  \/ \E cam \in BOOLEAN, can \in BOOLEAN : OverlayMount(cam, can)
  \/ CamStreamReady
  \/ AutoPoll
  \/ AutoVideoResolved
  \/ AutoVideoRejected
  \/ \E o \in Ops : TogglePip(o)
  \/ \E o \in Ops : ExitSettled(o)
  \/ \E o \in Ops, w \in Windows : WindowResolved(o, w)
  \/ \E o \in Ops : WindowRejected(o)
  \/ \E o \in Ops : PlaySettled(o)
  \/ \E o \in Ops : VideoResolved(o)
  \/ \E o \in Ops : VideoRejected(o)
  \/ UserLeavesVideoPip
  \/ InitBubblePos
  \/ \E offset \in {0, CoordStep} : PointerDown(offset, offset)
  \/ \E client \in Coords : PointerMove(client, client)
  \/ PointerUp

\* ---------------------------------------------------------------- claims
\* A call has ended: it returned false, or its recorder's stop task has run.
SessionEnded(s) ==
  \/ result[s] = "false"
  \/ result[s] = "true" /\ recorder[s] = "inactive" /\ events[s] = <<>>

\* C1: every session that has ended has exactly one kind of outcome: its
\* artifact was published once and it reported no error, or it reported an
\* error and published no artifact.
C1_ExactlyOneOutcome ==
  \A s \in Sessions :
    SessionEnded(s) =>
      \/ artifacts[s] = 1 /\ errors[s] = <<>>
      \/ artifacts[s] = 0 /\ errors[s] # <<>>

\* A call has exited: it has ended, or the component was unmounted after the
\* call began (abandonment).
SessionExited(s) == SessionEnded(s) \/ (~mounted /\ pc[s] # "idle")

\* C2: once a session has exited no stream it acquired has a live track and its
\* audio context is not open; once every session begun has exited no interval
\* is running.
C2_ReleasedOnEveryExit ==
  /\ \A s \in Sessions :
       SessionExited(s) =>
         /\ streams[<<s, "screen">>] # "live"
         /\ streams[<<s, "mic">>] # "live"
         /\ ctx[s] # "open"
  /\ (started > 0 /\ \A s \in Sessions : pc[s] # "idle" => SessionExited(s))
       => liveTimers = {}

\* C3: a composed stream carries the video track of its own screen stream; its
\* audio is none when neither source is present, the raw track of the one
\* source present (and no audio context) when exactly one is, and the mixing
\* destination's track (with an audio context) when both are.
C3_Composition ==
  \A s \in Sessions :
    combinedStream[s].video # 0 =>
      LET sys == hasSysAudio[s]
          mic == (micStream[s] = "granted")
          audio == combinedStream[s].audio
      IN /\ combinedStream[s].video = s
         /\ streams[<<s, "screen">>] # "none" /\ hasVideo[s]
         /\ (~sys /\ ~mic) => (audio = "none" /\ ctx[s] = "none")
         /\ (sys /\ ~mic) => (audio = "system" /\ ctx[s] = "none")
         /\ (~sys /\ mic) => (audio = "mic" /\ ctx[s] = "none")
         /\ (sys /\ mic) => (audio = "mixed" /\ ctx[s] # "none")

\* a session recording the mixed track of both sources, one recording a raw
\* track and one recording video only have all been composed
C3_Witness ==
  \E s \in Sessions :
    /\ recorder[s] = "recording"
    /\ combinedStream[s].audio = "mixed"
    /\ ctx[s] = "open"
    /\ hasSysAudio[s] /\ micStream[s] = "granted"

\* C4: the encoder of a session is stopped at most once and the session's
\* artifact is published at most once, however often stopRecording is called.
C4_SecondStopNoOp ==
  \A s \in Sessions : stopCalls[s] <= 1 /\ artifacts[s] <= 1

\* the only session was stopped and, before its stop task ran, a second
\* stopRecording call took the clean-up branch (nothing else empties streamsRef
\* of a mounted hook with one session whose stop is pending)
C4_Witness ==
  /\ mounted /\ started = 1
  /\ stopCalls[1] = 1
  /\ events[1] # <<>>
  /\ recorder[1] = "inactive"
  /\ streamsRef = <<>>
  /\ streams[<<1, "screen">>] = "stopped"

\* C5: a session whose screen request was denied returned false, reported the
\* permission error and nothing else, asked for the screen once, and has no
\* recorder, composed stream, audio context or stream; while it is the only
\* session the hook is not recording, shows the permission error and holds no
\* recorder, timer or stream.
C5_PermissionDenied ==
  \A s \in Sessions :
    displayOutcome[s] = "NotAllowedError" =>
      /\ pc[s] = "returned" /\ result[s] = "false"
      /\ errors[s] = <<ErrPermission>>
      /\ displayRequests[s] = 1
      /\ recorder[s] = "none"
      /\ combinedStream[s] = NoStream
      /\ ctx[s] = "none"
      /\ streams[<<s, "screen">>] = "none" /\ streams[<<s, "mic">>] = "none"
      /\ started = 1 =>
           /\ ~isRecording /\ ~isPaused
           /\ error = ErrPermission
           /\ mediaRecorderRef = 0
           /\ timerIntervalRef = 0 /\ liveTimers = {}
           /\ streamsRef = <<>>

C5_Witness ==
  /\ displayOutcome[1] = "NotAllowedError"
  /\ error = ErrPermission
  /\ result[1] = "false"

\* the step in which the microphone request of session s fails
MicFailStep(s) ==
  pc[s] = "awaitMic" /\ pc'[s] = "returned" /\ micStream'[s] = "null"

\* what C6 says of that step: the call returns true recording, reports no
\* error, and the composed stream has no microphone track
MicFailDegrades(s) ==
  /\ result'[s] = "true"
  /\ recorder'[s] = "recording"
  /\ isRecording'
  /\ error' = error /\ errors'[s] = <<>>
  /\ combinedStream'[s].audio = (IF hasSysAudio[s] THEN "system" ELSE "none")
  /\ streams'[<<s, "mic">>] = "none"

\* C6 as stated: whenever the microphone request fails the session goes on to
\* RECORDING, returns true and reports no error, without a microphone track.
C6_MicFailureAlwaysDegrades ==
  [][\A s \in Sessions : MicFailStep(s) => MicFailDegrades(s)]_vars

\* C6 amended: the same, when the screen stream is still live at the moment
\* the microphone request fails.
C6_MicFailureDegrades ==
  [][\A s \in Sessions :
       (MicFailStep(s) /\ streams[<<s, "screen">>] = "live") => MicFailDegrades(s)]_vars

C6_Witness ==
  \E s \in Sessions :
    /\ includeMic[s] /\ micStream[s] = "null"
    /\ result[s] = "true" /\ recorder[s] = "recording" /\ isRecording
    /\ combinedStream[s].audio = "none"
    /\ errors[s] = <<>>

\* C7: recordingTime decreases only in the step in which a startRecording call
\* starts its recorder, and then to 0; a step that pauses or resumes a recorder
\* leaves it unchanged.
C7_TimeNeverDecreases ==
  [][/\ recordingTime' < recordingTime =>
          /\ recordingTime' = 0
          /\ \E s \in Sessions : result[s] = "pending" /\ result'[s] = "true"
     /\ \A s \in Sessions :
          ((recorder[s] = "recording" /\ recorder'[s] = "paused") \/
           (recorder[s] = "paused" /\ recorder'[s] = "recording"))
            => recordingTime' = recordingTime]_vars

\* a session was paused with the counter above 0 and has just been resumed
C7_Witness ==
  /\ justResumed
  /\ recordingTime > 0
  /\ liveTimers # {}
  /\ ~isPaused

\* the await points of the try block that C10 names: staging the input (reading
\* the blob, writeFile), the primary transform, the fallback transform, and
\* reading the output
InFlightStages == {"reading", "writing", "exec", "fallback", "readFile"}

\* C8: every value delivered to a job's onProgress lies in [0,1] (0..One) and a
\* delivery to a job never carries less than the delivery before it.
C8_ProgressMonotonic ==
  [][\A j \in Jobs :
       <<lastDelivered[j], lastInput[j]>>' # <<lastDelivered[j], lastInput[j]>> =>
         /\ lastDelivered'[j] >= 0 /\ lastDelivered'[j] <= One
         /\ lastDelivered'[j] >= lastDelivered[j]]_vars

\* a job's callback has been delivered a value that is above the input of the
\* report that delivered it: a lower marker arrived after a higher one
C8_Witness ==
  \E j \in Jobs :
    /\ lastDelivered[j] > lastInput[j]
    /\ lastInput[j] >= 0

\* C9: a job that was given onProgress and resolved has received One as the
\* last value of its callback.
C9_FinalProgressIsOne ==
  \A j \in Jobs :
    (jobPc[j] = "settled" /\ outcome[j] = "resolved" /\ onProgress[j])
      => lastDelivered[j] = One

\* C10: a job whose signal fired at one of the named await points settles with
\* AbortError.
C10_AbortRejectsWithAbortError ==
  \A j \in Jobs :
    (jobPc[j] = "settled" /\ abortedAt[j] \in InFlightStages)
      => outcome[j] = "AbortError"

\* the step in which call j is made
CallStep(j) == calls = j - 1 /\ calls' = j

AllStatuses == <<"loading", "preparing", "converting", "finalizing">>

\* the call of job j started the load of the converter it ran on
StartedLoad(j) == ffmpeg[j] = j

\* C12 as stated: the onStatus of every job that resolved received loading,
\* preparing, converting, finalizing, in that order, each exactly once.
C12_AllStatusesOnce ==
  \A j \in Jobs :
    (jobPc[j] = "settled" /\ outcome[j] = "resolved") => statuses[j] = AllStatuses

\* C12 amended: the onStatus of every job that resolved received preparing,
\* converting, finalizing, in that order, each exactly once, preceded by
\* loading, once, exactly when the job's own call started the converter load.
C12_StatusesInOrder ==
  \A j \in Jobs :
    (jobPc[j] = "settled" /\ outcome[j] = "resolved") =>
      statuses[j] = IF StartedLoad(j) THEN AllStatuses ELSE Tail(AllStatuses)

\* a job resolved having received the four statuses
C12_Witness ==
  \E j \in Jobs :
    /\ jobPc[j] = "settled" /\ outcome[j] = "resolved"
    /\ statuses[j] = AllStatuses

\* job j has issued a transform (primary or fallback exec) that is pending on
\* a live converter
TransformInFlight(j) ==
  jobPc[j] \in {"exec", "fallback"} /\ instState[ffmpeg[j]] = "loaded"

\* C13: no two jobs have a transform in flight on the same converter instance.
C13_OneTransformPerInstance ==
  \A j, k \in Jobs :
    (j # k /\ TransformInFlight(j) /\ TransformInFlight(k)) => ffmpeg[j] # ffmpeg[k]

\* session s is acquiring its streams or has a running recorder
SessionActive(s) ==
  \/ pc[s] \in {"awaitScreen", "awaitMic"}
  \/ recorder[s] \in {"recording", "paused"}

\* C14: a startRecording call made while an earlier session is acquiring or
\* recording is ignored: it requests no stream and leaves the hook's state, the
\* artifact buffer, the recorders, streams, audio contexts and timers as they
\* were.
C14_ReentrantStartIgnored ==
  [][\A s \in Sessions :
       (started = s - 1 /\ started' = s /\ \E t \in Sessions : SessionActive(t)) =>
         /\ displayRequests'[s] = 0
         /\ pc'[s] # "awaitScreen"
         /\ UNCHANGED <<isRecording, isPaused, recordingTime, recordedChunks, error,
                        mediaRecorderRef, recorder, streams, ctx, liveTimers,
                        totalBytes>>]_vars

\* C15: a session whose granted screen stream has no video track returned
\* false having reported the no-video error and nothing else, has no recorder
\* and no composed stream (it never records), asked for no microphone, and its
\* screen stream is stopped.
C15_NoVideoTrack ==
  \A s \in Sessions :
    (displayOutcome[s] = "granted" /\ ~hasVideo[s]) =>
      /\ pc[s] = "returned" /\ result[s] = "false"
      /\ errors[s] = <<ErrNoVideo>>
      /\ recorder[s] = "none" /\ combinedStream[s] = NoStream
      /\ ctx[s] = "none"
      /\ streams[<<s, "screen">>] = "stopped"
      /\ streams[<<s, "mic">>] = "none"

\* a screen stream with system audio but no video track was granted
C15_Witness ==
  \E s \in Sessions :
    /\ displayOutcome[s] = "granted" /\ ~hasVideo[s] /\ hasSysAudio[s]
    /\ result[s] = "false"
    /\ streams[<<s, "screen">>] = "stopped"

\* the step in which the stop event of session s's recorder is delivered and
\* recorder.onstop runs (after the error event, when the encoder failed)
OnStopStep(s) ==
  /\ events[s] # <<>> /\ Head(events[s]) \in {"stop", "error"}
  /\ events'[s] = Tail(events[s])

\* the streams and the audio context of session s are released
SessionReleased(s) ==
  /\ streams[<<s, "screen">>] # "live"
  /\ streams[<<s, "mic">>] # "live"
  /\ ctx[s] # "open"

\* C16: when onstop runs with zero bytes accumulated, no artifact is published
\* and recordedChunks is empty, the empty-recording error is the error shown
\* and the last one the session reported, it differs from the start-failure and
\* encoder-failure errors, and the session's streams and audio context are
\* released (and, when it is the only session begun, no interval is running).
C16_EmptyRecording ==
  [][\A s \in Sessions :
       (OnStopStep(s) /\ totalBytes'[s] = 0) =>
         /\ recordedChunks' = <<>>
         /\ artifacts'[s] = 0
         /\ error' = ErrEmpty
         /\ errors'[s] # <<>> /\ errors'[s][Len(errors'[s])] = ErrEmpty
         /\ ErrEmpty \notin {ErrStart, ErrEncoder}
         /\ SessionReleased(s)'
         /\ started = 1 => liveTimers' = {}]_vars

\* the step in which the error event of session s's recorder is delivered
\* (recorder.onerror runs, then the dataavailable and stop events of the failure)
OnErrorStep(s) ==
  /\ events[s] # <<>> /\ Head(events[s]) = "error"
  /\ events'[s] = Tail(events[s])

\* C17: once the encoder's error event has been delivered the hook is neither
\* recording nor paused, the session has reported the encoder error, and its
\* streams and audio context are released (and, when it is the only session
\* begun, no interval is running).
C17_EncoderErrorTerminal ==
  [][\A s \in Sessions :
       OnErrorStep(s) =>
         /\ ~isRecording' /\ ~isPaused'
         /\ ErrEncoder \in Range(errors'[s])
         /\ SessionReleased(s)'
         /\ started = 1 => liveTimers' = {}]_vars

\* a step in which the screen track of session s ends and its onended handler
\* calls stopRecording(): the track stops without cleanup() having stopped it
\* (cleanup stops the streams of streamsRef and empties it)
TrackEndedStep(s) ==
  /\ streams[<<s, "screen">>] = "live"
  /\ streams'[<<s, "screen">>] = "stopped"
  /\ streamsRef' = streamsRef \/ <<s, "screen">> \notin Range(streamsRef)

\* C18: when the screen track of a session ends while its recorder is recording
\* or paused, a data flush and then the stop are requested of that recorder
\* and the hook is neither recording nor paused; when the stop event of a
\* recorder stopped this way is delivered, the session has published exactly
\* one artifact or reported the empty-recording error, and its streams and
\* audio context are released.
C18_TrackEndStops ==
  [][\A s \in Sessions :
       /\ (TrackEndedStep(s) /\ recorder[s] \in {"recording", "paused"}) =>
            /\ recorder'[s] = "inactive"
            /\ events'[s] = events[s] \o <<"data", "stop">>
            /\ stopCalls'[s] = stopCalls[s] + 1
            /\ ~isRecording' /\ ~isPaused'
       /\ (OnStopStep(s) /\ stopCalls[s] = 1) =>
            /\ (artifacts'[s] = 1) # (ErrEmpty \in Range(errors'[s]))
            /\ SessionReleased(s)']_vars

\* C19: once a call has settled neither its staged input nor its output is in
\* the working space of any converter.
C19_NoStagedFilesLeft ==
  \A j \in Jobs :
    jobPc[j] = "settled" =>
      \A i \in Instances : inputName(j) \notin files[i] /\ outputName(j) \notin files[i]

\* a call made with resetAfter false has settled after staging its input, on a
\* converter that is still loaded: its files were removed by safeDelete
C19_Witness ==
  \E j \in Jobs :
    /\ jobPc[j] = "settled" /\ ~resetAfter[j]
    /\ outcome[j] = "resolved"
    /\ instState[ffmpeg[j]] = "loaded"

\* the two transforms of a job whose primary transform failed
PrimaryThenRetry == <<"primary", "noAudio">>

\* the transform stage of job j has succeeded: 'finalizing' was reported
TransformSucceeded(j) == "finalizing" \in Range(statuses[j])

\* C20: a job runs the primary transform and at most one more, without audio,
\* which it is running whenever it is past a failed primary; a job is past the
\* primary without a retry only if the primary succeeded; a job whose retry
\* succeeded goes on as one whose primary succeeded, and a job whose retry
\* failed is in its finally block or settled, rejecting (with AbortError if it
\* was cancelled inside the try block); a job that resolved ran one or two
\* transforms, the last of which succeeded.
C20_OneRetryWithoutAudio ==
  \A j \in Jobs :
    /\ transforms[j] \in {<<>>, <<"primary">>, PrimaryThenRetry}
    /\ jobPc[j] = "exec" => transforms[j] = <<"primary">>
    /\ jobPc[j] = "fallback" => transforms[j] = PrimaryThenRetry
    /\ (transforms[j] = <<"primary">> /\ jobPc[j] # "exec") => TransformSucceeded(j)
    /\ (transforms[j] = PrimaryThenRetry /\ jobPc[j] # "fallback") =>
         IF TransformSucceeded(j)
         THEN jobPc[j] \in {"readFile", "delInput", "delOutput", "settled"}
         ELSE /\ jobPc[j] \in {"delInput", "delOutput", "settled"}
              /\ outcome[j] = IF abortedAt[j] \in TryStages THEN "AbortError" ELSE "Error"
    /\ (jobPc[j] = "settled" /\ outcome[j] = "resolved") =>
         /\ transforms[j] # <<>>
         /\ TransformSucceeded(j)

\* a job whose primary transform failed has resolved through the retry
C20_Witness ==
  \E j \in Jobs :
    /\ jobPc[j] = "settled" /\ outcome[j] = "resolved"
    /\ transforms[j] = PrimaryThenRetry

\* the session is RECORDING: started and not paused
Recording == isRecording /\ ~isPaused

\* C21: recordingTime increases only in a step taken while the session is
\* RECORDING (not while PAUSED, not between stopRecording and the encoder's
\* stop event, not after the session has stopped or failed).
C21_TicksOnlyWhileRecording ==
  [][recordingTime' > recordingTime => Recording]_vars

\* the session is PAUSED
Paused == isRecording /\ isPaused

\* no recorder has an event waiting to be dispatched
NoEventPending == \A s \in Sessions : events[s] = <<>>

\* a pauseRecording call would pass its test (line 240)
PauseTakesEffect == mediaRecorderRef # 0 /\ recorder[mediaRecorderRef] = "recording"

\* a resumeRecording call would pass its test (line 248)
ResumeTakesEffect == mediaRecorderRef # 0 /\ recorder[mediaRecorderRef] = "paused"

\* the step is a pauseRecording call that took effect: an encoder was paused
PauseStep == \E s \in Sessions : recorder[s] = "recording" /\ recorder'[s] = "paused"

\* the step is a resumeRecording call that took effect: an encoder was resumed
ResumeStep == \E s \in Sessions : recorder[s] = "paused" /\ recorder'[s] = "recording"

\* C22: in RECORDING a pauseRecording call takes effect and in PAUSED a
\* resumeRecording call does (once the recorder's pending events have been
\* dispatched); a pause that takes effect was made in RECORDING, leads to
\* PAUSED and leaves no interval running; a resume that takes effect was made
\* in PAUSED, leads to RECORDING and leaves the interval of timerIntervalRef
\* running; so a call in any other state changes nothing.
C22_PauseResume ==
  [][/\ (mounted /\ Recording /\ NoEventPending) => PauseTakesEffect
     /\ (mounted /\ Paused /\ NoEventPending) => ResumeTakesEffect
     /\ PauseStep => (Recording /\ Paused' /\ liveTimers' = {})
     /\ ResumeStep => (Paused /\ Recording' /\ liveTimers' = {timerIntervalRef'})
    ]_vars

\* the step settles job j with the cancellation error
RejectsCancelled(j) ==
  /\ jobPc[j] # "settled"
  /\ jobPc'[j] = "settled"
  /\ outcome'[j] = "AbortError"

\* C23: when the promise of a job rejects with the cancellation error, the
\* FFmpeg object that served the job has been terminated and the module holds
\* it neither as its cached instance nor as its cached load.
C23_TornDownBeforeCancelReported ==
  [][\A j \in Jobs :
       RejectsCancelled(j) =>
         /\ instState'[ffmpeg[j]] = "terminated"
         /\ ffmpegInstance' # ffmpeg[j]
         /\ ffmpegLoadPromise' # ffmpeg[j]]_vars

\* the step is the reportProgress(1) of line 251, made by job j while a
\* callback is registered
FinalReport(j) ==
  /\ jobPc[j] = "readFile"
  /\ outcome'[j] = "resolved"
  /\ activeProgressCallback # 0

\* C24: the latest delivery to a job's onProgress came at least ThrottleMs
\* after the one before it, unless it delivered a value of at least 0.995; and
\* the report of the final value 1.0 is delivered in the step that makes it.
C24_RateLimit ==
  [][/\ \A j \in Jobs :
          lastGap'[j] # -1 => (lastGap'[j] >= ThrottleMs \/ lastDelivered'[j] >= NearlyDone)
     /\ \A j \in Jobs :
          FinalReport(j) =>
            /\ lastDelivered'[activeProgressCallback] = One
            /\ deliveredAt'[activeProgressCallback] = now']_vars

\* a job has received two deliveries below 0.995, ThrottleMs or more apart, and
\* a job has received the final value less than ThrottleMs after its previous
\* delivery
C24_Witness ==
  /\ \E j \in Jobs : lastGap[j] >= ThrottleMs /\ lastDelivered[j] < NearlyDone
  /\ \E j \in Jobs : lastGap[j] \in 0..(ThrottleMs - 1) /\ lastDelivered[j] = One

\* the step delivers a value to the onProgress of job j
DeliveryTo(j) ==
  <<lastDelivered[j], lastInput[j], deliveredAt[j], lastGap[j]>>' #
    <<lastDelivered[j], lastInput[j], deliveredAt[j], lastGap[j]>>

\* job j is running a transform, or awaits the readFile after which it reports
\* the final value
OwnProgressDue(j) == jobPc[j] \in {"exec", "fallback", "readFile"}

\* C25: the onProgress of a job receives a value only from that job's own
\* transform or final report, and while a job is transforming the callback
\* and the duration the module holds are its own.
C25_NoCrossReport ==
  [][/\ \A j \in Jobs : DeliveryTo(j) => OwnProgressDue(j)
     /\ \A j \in Jobs :
          (jobPc[j] \in {"exec", "fallback"} /\ onProgress[j]) =>
             activeProgressCallback = j]_vars

\* ---- C26 (PipSpec)
\* togglePip is called with mode NONE and the camera active
ActivatesPip(o) == pipMode = "none" /\ TogglePip(o)
\* the togglePip call in slot o is entering picture-in-picture
InActivation(o) ==
  op[o].kind = "toggle" /\ op[o].pc \in {"reqWindow", "play", "reqVideo"}
\* the call in slot o makes a request to the single-element backend
AttemptsVideo(o) ==
  op'[o].kind = "toggle" /\ op'[o].pc = "reqVideo" /\ op'[o].tried # op[o].tried

ClosedExternally(w) == win[w] = "closed" /\ closedBy[w] = "user"
\* the next tick of w's poll will run onClose past its guard and clear the
\* poll, or the enterDocumentPip call that opened w has yet to install it
ResyncPending(w) ==
  \/ w \in livePolls /\ documentPipWindowRef = w /\ documentPipPollRef = w
  \/ \E o \in Ops : op[o].pc = "play" /\ op[o].win = w

\* C27: once a Document PiP window has been closed by the user, the next
\* tick of its 250 ms poll resynchronises the controller, whatever togglePip,
\* cyclePipSize, exitPip and camera on/off do around the close: as long as
\* the controller still refers to the closed window, the poll that will
\* clean up is running (or about to be installed), and the tick that finds
\* the window closed sets the mode to NONE, drops the window reference and
\* clears the poll.
C27_ExternalCloseResynced ==
  [][/\ \A w \in Windows : ClosedExternally(w)' => ResyncPending(w)'
     /\ \A w \in Windows : (ClosedExternally(w) /\ PollTick(w)) =>
          /\ pipMode' = "none"
          /\ documentPipWindowRef' = 0
          /\ documentPipPollRef' = 0
          /\ livePolls' = {}]_vars

\* ---- C28 (AutoPipSpec)
\* the auto-PiP effect schedules a re-poll
SchedulesPoll == timeoutId' /\ (~timeoutId \/ attempts' # attempts)
\* the auto-PiP effect makes its promotion attempt
StartsAttempt == autoPc = "idle" /\ autoPc' = "reqVideo"
\* the auto-PiP effect gives up
GivesUp == ~autoDone /\ autoDone' /\ ~StartsAttempt

InResize(o) == op[o].kind = "cycle" /\ op[o].pc # "idle"
\* the call in slot o returns
Returns(o) == op[o].pc # "idle" /\ op'[o].pc = "idle"
\* exitPip has run to its end: no window is referred to and the mode is NONE
\* (until a backend is entered again)
Exited ==
  /\ documentPipWindowRef = 0 /\ documentPipPollRef = 0
  /\ \A w \in Windows : win[w] # "open"

\* C29 as stated: every cyclePipSize call made with a mode other than NONE
\* returns with a mode other than NONE, and in mode DOCUMENT with an open
\* window of the new preset's dimensions.
C29_AlwaysReentered ==
  [][\A o \in Ops : (InResize(o) /\ Returns(o)) =>
       /\ pipMode' # "none"
       /\ pipMode' = "document" =>
            /\ documentPipWindowRef' # 0
            /\ win'[documentPipWindowRef'] = "open"
            /\ winSize'[documentPipWindowRef'] = PIP_SIZE_PRESETS(op[o].size)]_vars

\* C29 (amended): cyclePipSize advances the preset sm -> md -> lg -> sm.
\* Called with a mode other than NONE it runs exitPip and then requests a
\* backend again with the preset it has just selected: a Document PiP window
\* it opens has that preset's width and height; when the request succeeds
\* the mode becomes the backend entered, and when the backend rejects the
\* request the call returns without changing the mode; a call that returns
\* from exitPip without a request (the camera is off) leaves the mode NONE.
C29_CycleAndReenter ==
  [][\A o \in Ops :
       /\ CyclePipSize(o) =>
            /\ pipSize = "sm" => pipSize' = "md"
            /\ pipSize = "md" => pipSize' = "lg"
            /\ pipSize = "lg" => pipSize' = "sm"
            /\ pipMode = "none" => (op'[o].pc = "idle" /\ pipMode' = "none")
            /\ pipMode # "none" =>
                 /\ op'[o].kind = "cycle" /\ op'[o].size = pipSize'
                 /\ op'[o].pc \in {"exitAwait", "reqWindow", "reqVideo"}
                 /\ op'[o].pc # "exitAwait" => (Exited' /\ pipMode' = "none")
       /\ (InResize(o) /\ ExitSettled(o)) =>
            /\ ~pictureInPictureElement' /\ documentPipWindowRef' = 0
            /\ overlay = "mounted" => pipMode' = "none"
            /\ op'[o].pc \in {"reqWindow", "reqVideo", "idle"}
            /\ op'[o].pc = "idle" => ~isCameraOn
       /\ \A w \in Windows : (InResize(o) /\ WindowResolved(o, w)) =>
            /\ win'[w] = "open" /\ documentPipWindowRef' = w
            /\ winSize'[w] = PIP_SIZE_PRESETS(op[o].size)
       /\ (InResize(o) /\ PlaySettled(o)) => (Returns(o) /\ pipMode' = "document")
       /\ (InResize(o) /\ VideoResolved(o)) => (Returns(o) /\ pipMode' = "video")
       /\ (InResize(o) /\ Returns(o) /\ ~PlaySettled(o) /\ ~VideoResolved(o)
             /\ ~ExitSettled(o)) =>
            pipMode' = pipMode]_vars

\* a cyclePipSize call made in mode DOCUMENT has closed the first window and
\* opened a second one, with the dimensions of the preset it selected
C29_Witness ==
  \E o \in Ops :
    /\ op[o].kind = "cycle" /\ op[o].pc = "play" /\ op[o].win = 2
    /\ win[1] = "closed" /\ win[2] = "open" /\ documentPipWindowRef = 2
    /\ pipSize = "md" /\ winSize[2] = <<260, 260>>

\* ---- C30 (DragSpec)
\* one of the bubble's pointer handlers runs
PointerEvent ==
  \/ \E offset \in {0, CoordStep} : PointerDown(offset, offset)
  \/ \E client \in Coords : PointerMove(client, client)
  \/ PointerUp

\* C30: while the mode is not NONE, no pointer handler changes bubblePos or
\* the position stored in localStorage, also when the pointer was pressed
\* before the promotion.
C30_NoDragWhilePromoted ==
  [][(isPipActive(Cur) /\ PointerEvent) =>
       (bubblePos' = bubblePos /\ storedPos' = storedPos)]_vars

\* ---- C31 (PosSpec)
\* the position of the bubble: mounts and unmounts, the restore of the stored
\* position, drags, viewport resizes, size presets and the camera button
PosNext ==
  \/ \E cam \in BOOLEAN : OverlayMount(cam, FALSE)
  \/ OverlayUnmount
  \/ InitBubblePos
  \/ \E offset \in {0, CoordStep} : PointerDown(offset, offset)
  \/ \E clientX \in Coords, clientY \in Coords : PointerMove(clientX, clientY)
  \/ PointerUp
  \/ \E v \in Viewports : Resize(v[1], v[2])
  \/ \E o \in Ops : CyclePipSize(o)
  \/ \E o \in Ops : IslandCamera(o)

\* the bubble is on screen: the component is mounted, the camera is active
\* and a position has been set
BubbleShown == overlay = "mounted" /\ isCameraActive(Cur) /\ bubblePos # NoPos

\* the viewport has room for the bubble and its margins
ViewportFits ==
  /\ innerWidth >= getBubbleSize(Cur)[1] + 2 * Margin
  /\ innerHeight >= getBubbleSize(Cur)[2] + 2 * Margin

\* C31: whenever the bubble is shown, its position satisfies
\* margin <= x <= innerWidth - width - margin and
\* margin <= y <= innerHeight - height - margin, for every viewport size.
C31_PositionInsideViewport ==
  BubbleShown =>
    /\ Margin <= bubblePos[1]
    /\ bubblePos[1] <= innerWidth - getBubbleSize(Cur)[1] - Margin
    /\ Margin <= bubblePos[2]
    /\ bubblePos[2] <= innerHeight - getBubbleSize(Cur)[2] - Margin

\* ---- C32 (StoreSpec)
\* mounts and unmounts with the handlers that change what is persisted
\* (preset, mirror flag, position) and the mode
StoreNext ==
  \/ \E cam \in BOOLEAN : OverlayMount(cam, FALSE)
  \/ OverlayUnmount
  \/ CamStreamReady
  \/ InitBubblePos
  \/ ToggleMirror
  \/ \E o \in Ops : CyclePipSize(o)
  \/ \E o \in Ops : TogglePip(o)
  \/ \E o \in Ops : ExitSettled(o)
  \/ \E o \in Ops : VideoResolved(o)
  \/ \E o \in Ops : VideoRejected(o)

\* the component is mounted (for the first time or again)
Mounts == \E cam \in BOOLEAN, can \in BOOLEAN : OverlayMount(cam, can)

\* C32: a mount starts in mode NONE whatever the mode was before; it takes
\* the size preset and the mirror flag that localStorage holds (the values the
\* previous mount stored) and leaves these items as they were; while the
\* component is mounted the items hold the preset and the flag in effect.
C32_MountRestores ==
  /\ [](overlay = "mounted" =>
         (storedPipSize = pipSize /\ storedMirror = String(isCameraMirrored)))
  /\ [][Mounts =>
         /\ pipMode' = "none"
         /\ isPipSize(storedPipSize) =>
              (pipSize' = storedPipSize /\ storedPipSize' = storedPipSize)
         /\ storedMirror \in {"true", "false"} =>
              /\ isCameraMirrored' = (storedMirror = "true")
              /\ storedMirror' = storedMirror]_vars

\* the component has been mounted again (the position stored by the earlier
\* mount is not restored yet) with the preset md and the mirror flag off that
\* the earlier mount stored
C32_Witness ==
  /\ overlay = "mounted" /\ bubblePos = NoPos /\ storedPos # NoPos
  /\ pipMode = "none" /\ pipSize = "md" /\ ~isCameraMirrored
  /\ storedPipSize = "md" /\ storedMirror = "false"

\* ---- C33 (Mp4Spec)
\* a transcodeToMp4 call is made
CallMade == calls' = calls + 1

\* C33: a failed load is not cached: no call is handed a load that has
\* failed already, a call made after the failure starts a load of its own
\* (or finds a converter loaded).
C33_LoadFailureNotCached ==
  [][CallMade => instState'[ffmpeg'[calls']] # "failed"]_vars

\* ---- C34 (Mp4Spec)
\* call j runs resetFfmpeg(): at the end of its finally block (resetAfter), or
\* from its abort listener
TearsDown(j) ==
  \/ DeleteOutputDone(j) /\ resetAfter[j]
  \/ Abort(j) /\ jobPc[j] \in TryStages

\* the calls made after call j that have not settled
LaterJobs(j) == {k \in Jobs : k > j /\ jobPc[k] \notin {"idle", "settled"}}

\* C34: the teardown of a call leaves the later calls alone: it terminates
\* no converter a later call awaits or uses, forgets no load in progress that
\* a later call started, and the callback and the duration of a later call
\* are cleared by no other call's finally block.
C34_TeardownIsOwn ==
  [][/\ \A j \in Jobs : TearsDown(j) =>
          /\ \A k \in LaterJobs(j) : ffmpeg[k] # ffmpegInstance
          /\ \A k \in LaterJobs(j) :
               ~(ffmpegLoadPromise = k /\ instState[k] = "loading")
     /\ \A k \in Jobs :
          (activeProgressCallback = k /\ activeProgressCallback' = 0) =>
            (jobPc[k] \in TryStages /\ jobPc'[k] = "delInput")]_vars

\* ---- C35 (Spec)
\* the stop task of session s runs: recorder.onstop, after the dataavailable
\* (and, for an encoder failure, the error event) of the same task
CompletionOf(s) ==
  \E size \in 0..MaxBytes : DeliverStop(s, size) \/ DeliverError(s, size)

\* C35: when the recorder of a session stops after a later startRecording
\* call has begun, the later session keeps its live streams, its open
\* AudioContext and its running timer, and recordedChunks and error, which
\* the later call has reset, are not written.
C35_EarlierCompletionIsolated ==
  [][\A s \in Sessions, t \in Sessions :
       (s < t /\ t <= started /\ CompletionOf(s)) =>
         /\ \A kind \in {"screen", "mic"} :
              streams[<<t, kind>>] = "live" => streams'[<<t, kind>>] = "live"
         /\ ctx[t] = "open" => ctx'[t] = "open"
         /\ (mediaRecorderRef = t /\ timerIntervalRef \in liveTimers) =>
              timerIntervalRef \in liveTimers'
         /\ recordedChunks' = recordedChunks
         /\ error' = error]_vars

\* ---- C36 (Spec)
\* the microphone request of session s settles
MicSettles(s) == MicGranted(s) \/ MicFailed(s)

\* C36: when the microphone request settles after the screen track of the
\* session has ended, startRecording does not start recording: it returns
\* false and no stream of the session is left live, the microphone stream
\* just granted included.
C36_NoRecordingAfterScreenEnded ==
  [][\A s \in Sessions :
       (MicSettles(s) /\ streams[<<s, "screen">>] = "stopped") =>
         /\ recorder'[s] # "recording"
         /\ result'[s] = "false"
         /\ \A kind \in {"screen", "mic"} : streams'[<<s, kind>>] # "live"]_vars

\* ---- C37 (PipSpec)
\* window w has been superseded: the controller refers to a newer window
Superseded(w) == documentPipWindowRef # 0 /\ documentPipWindowRef # w

\* a close notification of window w reaches its onClose: the poll finds the
\* window closed, or pagehide/unload is delivered
CloseNotified(w) == PollTick(w) \/ UserClosesWindow(w)

\* C37: a close notification of a superseded window changes neither the
\* mode, nor the poll of the newer window, nor the reference to it.
C37_StaleCloseIgnored ==
  [][\A w \in Windows : (Superseded(w) /\ CloseNotified(w)) =>
       /\ pipMode' = pipMode
       /\ documentPipPollRef' = documentPipPollRef
       /\ livePolls' = livePolls
       /\ documentPipWindowRef' = documentPipWindowRef
       /\ win'[documentPipWindowRef] = win[documentPipWindowRef]]_vars

\* the poll of window 1 is still running after window 2 has superseded it,
\* in mode DOCUMENT: its next tick is a stale close notification
C37_Witness ==
  \E w \in livePolls :
      /\ win[w] = "closed" /\ Superseded(w)
      /\ win[documentPipWindowRef] = "open"
      /\ documentPipPollRef = w
      /\ pipMode = "document"

\* ---- C38 (AutoPipSpec)
\* the mode leaves NONE in this step
EntersPip == pipMode = "none" /\ pipMode' # "none"
\* a togglePip or cyclePipSize call of the user returns in this step
UserCallReturns ==
  \E o \in Ops : op[o].kind \in {"toggle", "cycle"} /\ Returns(o)

\* C38: once the user has left PiP with togglePip, the mode leaves NONE
\* again during that mount only in the step in which a togglePip or
\* cyclePipSize call returns, never by the auto-PiP effect.
C38_NoPipOnItsOwn ==
  [][(userLeftPip /\ userLeftPip' /\ EntersPip) => UserCallReturns]_vars

\* ============================================================= Part IV
\* ------------------------------------------------------------- actions
\* "Nueva grabacion" on the dashboard
handleStartSetup ==
  /\ view = "DASHBOARD"
  /\ selectedRecording' = FALSE
  /\ view' = "SETUP"
  /\ UNCHANGED <<stopTimeouts, startHandled, recVars, mp4Vars, ovVars, camVars>>

handleCancelSetup ==
  /\ view = "SETUP"
  /\ view' = "DASHBOARD"
  /\ UNCHANGED <<selectedRecording, stopTimeouts, startHandled, recVars,
                 mp4Vars, ovVars, camVars>>

\* handleStartRecording up to `await startRecording(settings)`
handleStartRecording(mic) ==
  /\ view = "SETUP"
  /\ StartRecording(mic)

\* handleStartRecording resumes with the value startRecording returned
StartReturned(s) ==
  /\ result[s] # "pending"
  /\ s \notin startHandled
  /\ startHandled' = startHandled \cup {s}
  /\ view' = IF result[s] = "true" THEN "RECORDING" ELSE view
  /\ UNCHANGED <<selectedRecording, stopTimeouts, recVars, mp4Vars, ovVars, camVars>>

\* the stop button of the overlay
handleStopRecording ==
  /\ view = "RECORDING"
  /\ stopTimeouts < MaxStopTimeouts
  /\ stopRecordingCalled
  /\ stopTimeouts' = stopTimeouts + 1
  /\ UNCHANGED <<view, selectedRecording, startHandled>>

\* a 500 ms timeout of handleStopRecording fires
StopTimeout ==
  /\ stopTimeouts > 0
  /\ stopTimeouts' = stopTimeouts - 1
  /\ selectedRecording' = FALSE
  /\ view' = "PREVIEW"
  /\ UNCHANGED <<startHandled, recVars, mp4Vars, ovVars, camVars>>

\* a recording of the library is opened from the dashboard
handleSelectRecording ==
  /\ view = "DASHBOARD"
  /\ selectedRecording' = TRUE
  /\ view' = "PREVIEW"
  /\ UNCHANGED <<stopTimeouts, startHandled, recVars, mp4Vars, ovVars, camVars>>

\* "discard" in the preview; `confirmed` is the answer to confirm()
handleBackToDashboard(confirmed) ==
  /\ view = "PREVIEW"
  /\ IF ~selectedRecording /\ recordedChunks # <<>>
       THEN IF confirmed
              THEN view' = "DASHBOARD" /\ recordedChunks' = <<>>
              ELSE UNCHANGED <<view, recordedChunks>>
       ELSE view' = "DASHBOARD" /\ UNCHANGED recordedChunks
  /\ justResumed' = FALSE
  /\ UNCHANGED <<isRecording, isPaused, recordingTime, error, mediaRecorderRef,
                 timerIntervalRef, streamsRef, audioContextRef, mounted,
                 started, pc, includeMic, micStream, combinedStream,
                 totalBytes, streams, hasVideo, hasSysAudio, ctx, recorder,
                 events, liveTimers, result, artifacts, errors, stopCalls,
                 displayRequests, displayOutcome>>
  /\ UNCHANGED <<selectedRecording, stopTimeouts, startHandled, mp4Vars, ovVars, camVars>>

\* the continuation of handleStartRecording runs in the microtask checkpoint
\* of the task that settled startRecording, before any other task
Resumed == \A s \in Sessions : result[s] = "pending" \/ s \in startHandled

\* the views of App.tsx around a recording, over the hook of Part I
AppNext ==
  \/ \E s \in Sessions : StartReturned(s)
  \/ Resumed /\ handleStartSetup
  \/ Resumed /\ handleCancelSetup
  \/ Resumed /\ handleStartRecording(FALSE)
  \/ Resumed /\ handleStopRecording
  \/ Resumed /\ StopTimeout
  \/ Resumed /\ handleSelectRecording
  \/ \E confirmed \in BOOLEAN : Resumed /\ handleBackToDashboard(confirmed)
  \/ \E s \in Sessions : Resumed /\ ScreenDenied(s)
  \/ \E s \in Sessions, video \in BOOLEAN, audio \in BOOLEAN :
        Resumed /\ ScreenGranted(s, video, audio)
  \/ \E s \in Sessions : Resumed /\ ScreenTrackEnded(s)
  \/ \E s \in Sessions, size \in 0..1 : Resumed /\ DeliverData(s, size)
  \/ \E s \in Sessions, size \in 0..1 : Resumed /\ DeliverStop(s, size)

\* ---- C39 (AppLiveSpec)
\* session s has ended with an artifact
EndedWithArtifact(s) == artifacts[s] > 0
\* the preview of a new recording is on screen
PreviewOfNew == view = "PREVIEW" /\ ~selectedRecording
\* the preview shows the artifact of session s
ShowsArtifactOf(s) ==
  /\ PreviewOfNew
  /\ recordedChunks # <<>> /\ recordedChunks[1].session = s

\* C39: a session that has ended with an artifact, by the stop button or by
\* the end of the screen track, leads to the PREVIEW of its artifact; and the
\* artifact of the last session is not published while the PREVIEW of a new
\* recording is already on screen.
C39_PreviewFollowsArtifact ==
  /\ \A s \in Sessions : EndedWithArtifact(s) ~> ShowsArtifactOf(s)
  /\ [][PreviewOfNew => artifacts'[started] = artifacts[started]]_vars

\* ============================================================== Part V
\* ------------------------------------------------------------- helpers
\* the cleanup of the current run: cancelled = true, its stream (if it has
\* one) is stopped and the <video> is detached
cleanedUp(f, value) ==
  IF camRun = 0 THEN f ELSE [f EXCEPT ![camRun] = value]

cameraCleanup ==
  /\ cancelled' = cleanedUp(cancelled, TRUE)
  /\ stream' = cleanedUp(stream, IF camRun # 0 /\ stream[camRun] = "null"
                                   THEN "null" ELSE "stopped")
  /\ camSrcObject' = 0

\* startCam of a new run: getUserMedia is requested if the camera is active
\* (the <video> is rendered then, so videoRef.current is set)
startCam(pcs, active) ==
  /\ camRun < MaxCamRuns
  /\ camRun' = camRun + 1
  /\ camPc' = [pcs EXCEPT ![camRun + 1] = IF active THEN "awaiting" ELSE "idle"]

\* ------------------------------------------------------------- actions
\* the overlay mounts: the effect runs for the first time
CamMount(active, id) ==
  /\ ~camMounted
  /\ camMounted' = TRUE
  /\ cameraActive' = active
  /\ cameraId' = id
  /\ startCam(camPc, active)
  /\ UNCHANGED <<cancelled, stream, camSrcObject>>
  /\ UNCHANGED <<recVars, mp4Vars, ovVars, appVars>>

\* isCameraActive changes (the camera button, or the bubble's camera-off
\* button): the cleanup of the current run, then a new run
CameraToggled ==
  /\ camMounted
  /\ cameraActive' = ~cameraActive
  /\ cameraCleanup
  /\ startCam(camPc, ~cameraActive)
  /\ UNCHANGED <<camMounted, cameraId>>
  /\ UNCHANGED <<recVars, mp4Vars, ovVars, appVars>>

\* the prop cameraId changes: the cleanup of the current run, then a new run
CameraIdChanged(id) ==
  /\ camMounted
  /\ id # cameraId
  /\ cameraId' = id
  /\ cameraCleanup
  /\ startCam(camPc, cameraActive)
  /\ UNCHANGED <<camMounted, cameraActive>>
  /\ UNCHANGED <<recVars, mp4Vars, ovVars, appVars>>

\* the overlay unmounts: the cleanup of the current run
CamUnmount ==
  /\ camMounted
  /\ camMounted' = FALSE
  /\ cameraCleanup
  /\ UNCHANGED <<cameraActive, cameraId, camRun, camPc>>
  /\ UNCHANGED <<recVars, mp4Vars, ovVars, appVars>>

\* getUserMedia of run r resolves and the run keeps the stream whether or
\* not it has been cancelled
GetUserMediaResolvedKept(r) ==
  /\ camPc[r] = "awaiting"
  /\ stream' = [stream EXCEPT ![r] = "live"]
  /\ camPc' = [camPc EXCEPT ![r] = "attached"]
  /\ camSrcObject' = IF camMounted /\ cameraActive THEN r ELSE camSrcObject
  /\ UNCHANGED <<camMounted, cameraActive, cameraId, camRun, cancelled>>
  /\ UNCHANGED <<recVars, mp4Vars, ovVars, appVars>>

\* getUserMedia of run r resolves: a cancelled run stops the tracks of the
\* stream it was given, the current run attaches it to the <video>
GetUserMediaResolved(r) ==
  /\ camPc[r] = "awaiting"
  /\ IF cancelled[r]
       THEN /\ stream' = [stream EXCEPT ![r] = "stopped"]
            /\ camPc' = [camPc EXCEPT ![r] = "stoppedLate"]
            /\ UNCHANGED camSrcObject
       ELSE /\ stream' = [stream EXCEPT ![r] = "live"]
            /\ camPc' = [camPc EXCEPT ![r] = "attached"]
            /\ camSrcObject' = IF camMounted /\ cameraActive
                                 THEN r ELSE camSrcObject
  /\ UNCHANGED <<camMounted, cameraActive, cameraId, camRun, cancelled>>
  /\ UNCHANGED <<recVars, mp4Vars, ovVars, appVars>>

\* getUserMedia of run r rejects: the error is logged
GetUserMediaRejected(r) ==
  /\ camPc[r] = "awaiting"
  /\ camPc' = [camPc EXCEPT ![r] = "rejected"]
  /\ UNCHANGED <<camMounted, cameraActive, cameraId, camRun, cancelled,
                 stream, camSrcObject>>
  /\ UNCHANGED <<recVars, mp4Vars, ovVars, appVars>>

CamNext ==
  \/ \E active \in BOOLEAN, id \in 0..MaxCameraId : CamMount(active, id)
  \/ CameraToggled
  \/ \E id \in 0..MaxCameraId : CameraIdChanged(id)
  \/ CamUnmount
  \/ \E r \in CamRuns : GetUserMediaResolved(r)
  \/ \E r \in CamRuns : GetUserMediaRejected(r)

\* ---- C40 (CamSpec)
\* the camera streams whose tracks are live
LiveCamStreams == {r \in CamRuns : stream[r] = "live"}

\* C40: the stream of a run whose cleanup has run (camera turned off, device
\* changed, overlay unmounted) has its tracks stopped, also when it was
\* acquired after the cleanup; no camera stream is live while the camera is
\* off or the overlay unmounted, and at most one is live at any time.
C40_CameraStreamsReleased ==
  /\ \A r \in CamRuns : cancelled[r] => stream[r] # "live"
  /\ (~camMounted \/ ~cameraActive) => LiveCamStreams = {}
  /\ Cardinality(LiveCamStreams) <= 1

\* a run was cancelled while its request was pending and stopped the stream
\* it was given later, while the run that followed it holds a live stream
C40_Witness ==
  \E r \in CamRuns, q \in CamRuns :
      /\ r < q
      /\ camPc[r] = "stoppedLate" /\ stream[r] = "stopped"
      /\ stream[q] = "live" /\ camSrcObject = q

Next == RecNext

Spec == Init /\ [][Next]_vars

Mp4Spec == Init /\ [][Mp4Next]_vars

ProgressSpec == Init /\ [][ProgressNext]_vars
PipSpec == Init /\ [][PipNext]_vars
AutoPipSpec == Init /\ [][AutoPipNext]_vars
DragSpec == Init /\ [][DragNext]_vars
PosSpec == Init /\ [][PosNext]_vars
StoreSpec == Init /\ [][StoreNext]_vars
CamSpec == Init /\ [][CamNext]_vars
AppSpec == Init /\ [][AppNext]_vars
\* the continuation of an await, a timeout and the tasks a recorder has
\* queued are run by the event loop; nothing obliges the user to act
AppLiveSpec ==
  /\ AppSpec
  /\ WF_vars(\E s \in Sessions : StartReturned(s))
  /\ WF_vars(Resumed /\ StopTimeout)
  /\ WF_vars(\E s \in Sessions, size \in 0..1 : Resumed /\ DeliverData(s, size))
  /\ WF_vars(\E s \in Sessions, size \in 0..1 : Resumed /\ DeliverStop(s, size))

====
